---- MODULE Spec2Model ----
(***************************************************************************)
(* A model of the allocation runner of client/allocrunner/alloc_runner.go: *)
(* the Run goroutine, the dirty-sync goroutine, the task-runner callback   *)
(* setTaskState, snapshot composition (Alloc), persistence, restore and    *)
(* destruction.  Task runners, the broadcaster and the previous-alloc      *)
(* watcher are collaborators whose code is outside this file; they are     *)
(* modelled by their contracts.                                            *)
(***************************************************************************)
EXTENDS Naturals, Sequences, FiniteSets

VARIABLES
    alloc,                  \* r.alloc: the allocation as last sent by the server
    allocClientStatus,      \* r.allocClientStatus (explicit status)
    allocClientDescription, \* r.allocClientDescription
    allocHealth,            \* r.allocHealth: "unset", "true" or "false"
    taskStates,             \* r.taskStates: task name -> TaskState
    tasks,                  \* names with an entry in r.tasks
    restored,               \* r.restored
    restoredDead,           \* the tasks RestoreState found dead in the persisted state
    updateCh,               \* r.updateCh
    dirtyCh,                \* r.dirtyCh holds a signal
    ctxCancelled,           \* r.ctx is cancelled
    allocDir,               \* state of r.allocDir
    store,                  \* the allocation's bucket in the state database
    persisted,              \* persistedEval, immutablePersisted, allocDirPersisted
    pc,                     \* position of the Run goroutine
    runAlloc,               \* Run's local alloc (taken by r.Alloc() at its start)
    launchIdx,              \* index of Run's loop over tg.Tasks
    destroyEvent,           \* Run's local taskDestroyEvent
    runSnap,                \* the snapshot local to Run's syncStatus / handleDestroy
    syncPc,                 \* position of the dirtySyncState goroutine
    syncSnap,               \* the snapshot local to its syncStatus
    tries,                  \* sendBroadcast's loop counter, per goroutine
    trs,                    \* task runners: created, launched, destroyed, exited
    destroyLog,             \* per task runner, the Destroy calls it received
    launchCount,            \* per task, how many times `go tr.Run()` was executed
    restartLog,             \* per task runner, the Restart calls it received
    bcast,                  \* the broadcaster: closed flag, the listener's queue, and
                            \* what became of handleDestroy's broadcast
    subSeen,                \* what the listener has received so far
    updaterLog,             \* client statuses handed to the updater callback
    watchers,               \* number of uncancelled health-watcher contexts
    now,                    \* the reading of the wall clock (time.Now())
    calls,                  \* task-runner callbacks made so far
    updatesSent,            \* Update() calls made so far
    appended                \* per task, every event handed to appendTaskEvent so far

vars == <<alloc, allocClientStatus, allocClientDescription, allocHealth, taskStates,
          tasks, restored, restoredDead, updateCh, dirtyCh, ctxCancelled, allocDir, store, persisted,
          pc, runAlloc, launchIdx, destroyEvent, runSnap, syncPc, syncSnap, tries,
          trs, destroyLog, launchCount, restartLog, bcast, subSeen, updaterLog,
          watchers, now, calls, updatesSent, appended>>

-----------------------------------------------------------------------------
(* Bounds of the model. *)

\* task-runner callbacks (setTaskState calls) in one behaviour
MaxCalls == 2

\* Update() calls in one behaviour
MaxUpdates == 1

\* the calls of setTaskState in a behaviour that follows the life of the tasks
MaxLifeCalls == 3

\* the wall clock stops here
MaxTime == 2

\* the calls of setTaskState in a behaviour that fills the event rings
MaxEventCalls == 12

\* Update() calls in a behaviour that fills updateCh
MaxUpdateCalls == 66

(* Program constants. *)

\* capacity of the event ring of a task state
EventCapacity == 10

\* capacity of r.updateCh
UpdateChCapacity == 64

\* per-listener queue depth of the broadcaster
BroadcastCapacity == 8

\* attempts of sendBroadcast
BroadcastAttempts == 3

-----------------------------------------------------------------------------
(* The task group of the allocation's job: two tasks, the first is leader. *)

Tasks == {"t1", "t2"}

TaskOrder == <<"t1", "t2">>

IsLeader(t) == t = "t1"

TaskStatePending == "pending"

TaskStateRunning == "running"

TaskStateDead == "dead"

AllocClientStatusPending == "pending"

AllocClientStatusRunning == "running"

AllocClientStatusComplete == "complete"

AllocClientStatusFailed == "failed"

\* the zero value of structs.TaskState
ZeroTaskState ==
    [State |-> "", Failed |-> FALSE, Restarts |-> 0, LastRestart |-> 0,
     StartedAt |-> 0, FinishedAt |-> 0, Events |-> <<>>]

\* a nil *structs.TaskEvent
NoEvent == [Type |-> "nil", FailsTask |-> FALSE, Time |-> 0]

TaskKilled == "Killed"

TaskSiblingFailed == "Sibling Task Failed"

TaskLeaderDead == "Leader Task Dead"

TaskRestarting == "Restarting"

\* a map entry set or added, as taskStates[name] = v does
MapPut(m, k, v) == [x \in (DOMAIN m) \cup {k} |-> IF x = k THEN v ELSE m[x]]

EmptyMap == [x \in {} |-> ZeroTaskState]

-----------------------------------------------------------------------------
(* Pure functions. *)

\* getClientStatus: the client status computed from the task states
getClientStatus(ts) ==
    LET running == \E t \in DOMAIN ts : ts[t].State = TaskStateRunning
        pending == \E t \in DOMAIN ts : ts[t].State = TaskStatePending
        failed  == \E t \in DOMAIN ts : ts[t].State = TaskStateDead /\ ts[t].Failed
        dead    == \E t \in DOMAIN ts : ts[t].State = TaskStateDead /\ ~ts[t].Failed
    IN  IF failed THEN AllocClientStatusFailed
        ELSE IF running THEN AllocClientStatusRunning
        ELSE IF pending THEN AllocClientStatusPending
        ELSE IF dead THEN AllocClientStatusComplete
        ELSE ""

\* an event ring that drops the new event when it is full
appendKeepOldest(events, event) ==
    IF Len(events) = EventCapacity
        THEN events
        ELSE Append(events, event)

\* appendTaskEvent: the event ring with the event appended
appendTaskEvent(events, event) ==
    IF Len(events) = EventCapacity
        THEN Append(Tail(events), event)
        ELSE Append(events, event)

\* Allocation.TerminalStatus: stopped by the server or terminal on the client
TerminalStatus(a) ==
    \/ a.DesiredStatus \in {"stop", "evict"}
    \/ a.ClientStatus \in {AllocClientStatusComplete, AllocClientStatusFailed, "lost"}

\* Allocation.Terminated / ClientTerminalStatus: terminal on the client
ClientTerminalStatus(a) ==
    a.ClientStatus \in {AllocClientStatusComplete, AllocClientStatusFailed, "lost"}

\* a finalizeTerminalAlloc that fills nothing in
finalizeNothing(ts, status) ==
    ts

\* finalizeTerminalAlloc: the task states of the runner after the call
finalizeTerminalAlloc(ts, status) ==
    IF status \notin {AllocClientStatusComplete, AllocClientStatusFailed, "lost"}
        THEN ts
        ELSE [t \in (DOMAIN ts) \cup Tasks |->
                LET cur == IF t \in DOMAIN ts THEN ts[t] ELSE ZeroTaskState
                IN  IF t \in Tasks /\ cur.FinishedAt = 0
                        THEN [cur EXCEPT !.FinishedAt = now]
                        ELSE cur]

-----------------------------------------------------------------------------
(* Snapshot composition. *)

NoSnap ==
    [EvalID |-> 0, DeploymentID |-> "", DesiredStatus |-> "", ClientStatus |-> "none",
     ClientDescription |-> "", Healthy |-> "unset", TaskGroupOK |-> TRUE,
     AllocModifyIndex |-> 0, TaskStates |-> EmptyMap]

\* the explicit status has been set (the test of Alloc)
ExplicitStatus == allocClientStatus # "" \/ allocClientDescription # ""

\* the client status of the snapshot Alloc() composes in the current state
SnapStatus ==
    IF ExplicitStatus THEN allocClientStatus ELSE getClientStatus(taskStates)

\* a snapshot health that takes the watcher's decision whatever the explicit status
SnapHealthyOverlaid ==
    LET h == IF allocHealth # "unset" THEN allocHealth ELSE alloc.Healthy
    IN  IF SnapStatus = AllocClientStatusFailed /\ alloc.DeploymentID # "" /\ h # "false"
            THEN "false"
            ELSE h

\* the deployment health of the snapshot Alloc() composes in the current state
SnapHealthy ==
    IF ExplicitStatus THEN alloc.Healthy
    ELSE LET h == IF allocHealth # "unset" THEN allocHealth ELSE alloc.Healthy
         IN  IF SnapStatus = AllocClientStatusFailed /\ alloc.DeploymentID # ""
                /\ h # "false"
                 THEN "false"
                 ELSE h

\* Alloc() in the current state panics: finalizeTerminalAlloc ranges over the tasks of
\* a task group that LookupTaskGroup did not find (lines 478, 483)
AllocFaults ==
    /\ ~alloc.TaskGroupOK
    /\ SnapStatus \in {AllocClientStatusComplete, AllocClientStatusFailed, "lost"}

\* r.taskStates after Alloc() (finalizeTerminalAlloc writes the runner's map)
AllocTaskStates == finalizeTerminalAlloc(taskStates, SnapStatus)

\* Alloc(): the snapshot returned in the current state
Alloc ==
    [EvalID |-> alloc.EvalID, DeploymentID |-> alloc.DeploymentID,
     DesiredStatus |-> alloc.DesiredStatus, ClientStatus |-> SnapStatus,
     ClientDescription |-> allocClientDescription, Healthy |-> SnapHealthy,
     TaskGroupOK |-> alloc.TaskGroupOK, AllocModifyIndex |-> alloc.AllocModifyIndex,
     TaskStates |-> AllocTaskStates]

-----------------------------------------------------------------------------
(* Collaborators: task runners and the broadcaster. *)

\* a task runner: restoreResult is what its RestoreState returned ("none": not called)
NoRunner ==
    [created |-> FALSE, launched |-> FALSE, destroyed |-> FALSE, exited |-> FALSE,
     restoreResult |-> "none", updated |-> 0]

\* TaskRunner.Destroy(event) on each runner of `targets`, called by `by`
DestroyRunners(targets, event, by) ==
    /\ trs' = [t \in Tasks |-> IF t \in targets THEN [trs[t] EXCEPT !.destroyed = TRUE]
                                                ELSE trs[t]]
    /\ destroyLog' = [t \in Tasks |->
                        IF t \in targets
                            THEN Append(destroyLog[t], [Type |-> event.Type,
                                                        FailedSibling |-> event.FailedSibling,
                                                        By |-> by])
                            ELSE destroyLog[t]]

\* getTaskRunners and TaskRunner.Update(update) on each runner of r.tasks; a
\* runner keeps the AllocModifyIndex of the last update handed to it
ForwardUpdate(update) ==
    trs' = [t \in Tasks |-> IF t \in tasks
                               THEN [trs[t] EXCEPT !.updated = update.AllocModifyIndex]
                               ELSE trs[t]]

DestroyEventOf(type, sibling) == [Type |-> type, FailedSibling |-> sibling]

\* AllocBroadcaster.Send: the broadcaster after the call
SendQueue(snap) ==
    IF bcast.closed \/ ~bcast.listening \/ Len(bcast.queue) >= BroadcastCapacity
        THEN bcast.queue
        ELSE Append(bcast.queue, snap.ClientStatus)

\* AllocBroadcaster.Send: whether the snapshot was sent to every listener
SendOK(snap) ==
    /\ ~bcast.closed
    /\ bcast.listening => Len(bcast.queue) < BroadcastCapacity

\* one iteration of sendBroadcast's loop by goroutine g
sendBroadcast(g, snap) ==
    /\ bcast' = [bcast EXCEPT !.queue = SendQueue(snap)]
    /\ tries' = [tries EXCEPT ![g] = IF SendOK(snap) \/ @ + 1 >= BroadcastAttempts
                                        THEN 0 ELSE @ + 1]

\* sendBroadcast's loop is left after this iteration
SendLeaves(g, snap) == SendOK(snap) \/ tries[g] + 1 >= BroadcastAttempts

\* what became of a snapshot given to sendBroadcast
Sent(snap) == IF SendOK(snap) THEN "accepted" ELSE "dropped"

-----------------------------------------------------------------------------
(* Persistence. *)

NoMutable ==
    [AllocClientStatus |-> "none", AllocClientDescription |-> "",
     TaskStates |-> EmptyMap, Healthy |-> "unset"]

NoAlloc ==
    [EvalID |-> 0, DeploymentID |-> "", DesiredStatus |-> "", ClientStatus |-> "",
     Healthy |-> "unset", TaskGroupOK |-> TRUE, AllocModifyIndex |-> 0]

EmptyStore ==
    [exists |-> FALSE, alloc |-> NoAlloc, immutable |-> FALSE, allocDir |-> FALSE,
     mutable |-> NoMutable, allocWrites |-> 0, immutableWrites |-> 0,
     allocDirWrites |-> 0]

\* the allocation of a snapshot, as the alloc record holds it
AllocOf(snap) ==
    [EvalID |-> snap.EvalID, DeploymentID |-> snap.DeploymentID,
     DesiredStatus |-> snap.DesiredStatus, ClientStatus |-> snap.ClientStatus,
     Healthy |-> snap.Healthy, TaskGroupOK |-> snap.TaskGroupOK,
     AllocModifyIndex |-> snap.AllocModifyIndex]

\* the bucket after a committed transaction of saveAllocRunnerState
CommittedStore(snap) ==
    [exists |-> TRUE,
     alloc |-> IF snap.EvalID # persisted.eval THEN AllocOf(snap) ELSE store.alloc,
     immutable |-> IF persisted.immutable THEN store.immutable ELSE TRUE,
     allocDir |-> IF persisted.allocDir THEN store.allocDir ELSE TRUE,
     mutable |-> [AllocClientStatus |-> allocClientStatus,
                  AllocClientDescription |-> allocClientDescription,
                  TaskStates |-> snap.TaskStates,
                  Healthy |-> snap.Healthy],
     allocWrites |-> IF snap.EvalID # persisted.eval THEN store.allocWrites + 1
                     ELSE store.allocWrites,
     immutableWrites |-> IF persisted.immutable THEN store.immutableWrites
                         ELSE store.immutableWrites + 1,
     allocDirWrites |-> IF persisted.allocDir THEN store.allocDirWrites
                        ELSE store.allocDirWrites + 1]

\* a save that does not look at the runner's context
saveIgnoresCancel(ok) ==
    /\ taskStates' = AllocTaskStates
    /\ IF ok
          THEN /\ store' = CommittedStore(Alloc)
               /\ persisted' = [eval |-> Alloc.EvalID, immutable |-> TRUE, allocDir |-> TRUE]
          ELSE UNCHANGED <<store, persisted>>

\* a save that marks the records as persisted whether or not the transaction commits
saveMarksAlways(ok) ==
    IF ctxCancelled
        THEN UNCHANGED <<store, persisted, taskStates>>
        ELSE /\ taskStates' = AllocTaskStates
             /\ persisted' = [eval |-> Alloc.EvalID, immutable |-> TRUE, allocDir |-> TRUE]
             /\ IF ok THEN store' = CommittedStore(Alloc) ELSE UNCHANGED store

\* saveAllocRunnerState; ok tells whether the transaction commits
saveAllocRunnerState(ok) ==
    IF ctxCancelled
        THEN UNCHANGED <<store, persisted, taskStates>>
        ELSE /\ taskStates' = AllocTaskStates
             /\ IF ok
                   THEN /\ store' = CommittedStore(Alloc)
                        /\ persisted' = [eval |-> Alloc.EvalID, immutable |-> TRUE,
                                         allocDir |-> TRUE]
                   ELSE UNCHANGED <<store, persisted>>

-----------------------------------------------------------------------------
(* The state after NewAllocRunner. *)

Goroutines == {"run", "sync"}

NewAlloc(desired) ==
    [EvalID |-> 1, DeploymentID |-> "d1", DesiredStatus |-> desired,
     ClientStatus |-> AllocClientStatusPending, Healthy |-> "unset", TaskGroupOK |-> TRUE,
     AllocModifyIndex |-> 0]

NewAllocRunner(a, listening) ==
    /\ alloc = a
    /\ allocClientStatus = ""
    /\ allocClientDescription = ""
    /\ allocHealth = "unset"
    /\ taskStates = EmptyMap
    /\ tasks = {}
    /\ restored = {}
    /\ restoredDead = {}
    /\ updateCh = <<>>
    /\ dirtyCh = FALSE
    /\ ctxCancelled = FALSE
    /\ allocDir = "new"
    /\ persisted = [eval |-> 0, immutable |-> FALSE, allocDir |-> FALSE]
    /\ runAlloc = NoSnap
    /\ launchIdx = 1
    /\ destroyEvent = DestroyEventOf("nil", "")
    /\ runSnap = NoSnap
    /\ syncPc = "off"
    /\ syncSnap = NoSnap
    /\ tries = [g \in Goroutines |-> 0]
    /\ trs = [t \in Tasks |-> NoRunner]
    /\ destroyLog = [t \in Tasks |-> <<>>]
    /\ launchCount = [t \in Tasks |-> 0]
    /\ restartLog = [t \in Tasks |-> <<>>]
    /\ bcast = [closed |-> FALSE, listening |-> listening, queue |-> <<>>,
                final |-> "none", finalStatus |-> "none"]
    /\ subSeen = [last |-> "none", sawTerminal |-> FALSE, regressed |-> FALSE]
    /\ updaterLog = [ClientStatus |-> "none", ClientDescription |-> ""]
    /\ watchers = 0
    /\ now = 1
    /\ calls = 0
    /\ updatesSent = 0
    /\ appended = [t \in Tasks |-> <<>>]

\* a new runner for a fresh allocation, nothing persisted yet
Init ==
    /\ \E desired \in {"run", "stop"} : NewAllocRunner(NewAlloc(desired), FALSE)
    /\ store = EmptyStore
    /\ pc = "created"

-----------------------------------------------------------------------------
(* setStatus and setTaskState. *)

\* a setStatus that does not signal the sync goroutine
setStatusNoSignal(status, desc) ==
    /\ allocClientStatus' = status
    /\ allocClientDescription' = desc
    /\ dirtyCh' = dirtyCh

\* setStatus(status, desc)
setStatus(status, desc) ==
    /\ allocClientStatus' = status
    /\ allocClientDescription' = desc
    /\ dirtyCh' = TRUE

\* an event part of setTaskState that does not count restarts
WithEventForgetsRestart(cur, event) ==
    IF event = NoEvent
        THEN cur
        ELSE [cur EXCEPT !.Failed = @ \/ event.FailsTask,
                         !.LastRestart = IF event.Type = TaskRestarting THEN event.Time ELSE @,
                         !.Events = appendTaskEvent(@, event)]

\* the task state after the event part of setTaskState (lines 645-662)
WithEvent(cur, event) ==
    IF event = NoEvent
        THEN cur
        ELSE [cur EXCEPT !.Failed = @ \/ event.FailsTask,
                         !.Restarts = IF event.Type = TaskRestarting THEN @ + 1 ELSE @,
                         !.LastRestart = IF event.Type = TaskRestarting THEN event.Time ELSE @,
                         !.Events = appendTaskEvent(@, event)]

\* a non-lazy call that takes pending for every omitted state
EffectiveStateForgets(cur, state) ==
    IF state # "" THEN state ELSE TaskStatePending

\* the state setTaskState stores for a non-lazy call (lines 668-674)
EffectiveState(cur, state) ==
    IF state # "" THEN state
    ELSE IF cur.State = "" THEN TaskStatePending ELSE cur.State

\* the task state after the state part of setTaskState (lines 676-693, 748)
WithState(cur, state) ==
    [cur EXCEPT !.StartedAt = IF state = TaskStateRunning /\ cur.State # TaskStateRunning
                                 THEN now ELSE @,
                !.FinishedAt = IF state = TaskStateDead /\ @ = 0 THEN now ELSE @,
                !.State = state]

\* a cascade that ignores the leader flag
CascadeFailedOnly(taskName, failed) ==
    IF failed THEN tasks \ {taskName} ELSE {}

\* the runners setTaskState destroys when taskName is stored as dead (lines 695-744)
CascadeTargets(taskName, failed) ==
    IF failed \/ (taskName \in tasks /\ IsLeader(taskName))
        THEN tasks \ {taskName}
        ELSE {}

\* the event of that cascade
CascadeEvent(taskName, failed) ==
    IF failed THEN DestroyEventOf(TaskSiblingFailed, taskName)
    ELSE DestroyEventOf(TaskLeaderDead, "")

\* setTaskState(taskName, state, event, lazySync), called by the task runner of
\* taskName, as one of at most limit calls of the behaviour
setTaskStateWithin(limit, taskName, state, event, lazySync) ==
    LET cur == IF taskName \in DOMAIN taskStates THEN taskStates[taskName]
               ELSE ZeroTaskState
        ev  == WithEvent(cur, event)
        st  == EffectiveState(ev, state)
    IN  /\ trs[taskName].launched
        /\ ~trs[taskName].exited
        /\ calls < limit
        /\ calls' = calls + 1
        /\ appended' = IF event = NoEvent THEN appended
                        ELSE [appended EXCEPT ![taskName] = Append(@, event)]
        /\ IF lazySync
              THEN /\ taskStates' = MapPut(taskStates, taskName, ev)
                   /\ UNCHANGED <<trs, destroyLog, dirtyCh>>
              ELSE /\ taskStates' = MapPut(taskStates, taskName, WithState(ev, st))
                   /\ IF st = TaskStateDead
                         THEN DestroyRunners(CascadeTargets(taskName, ev.Failed),
                                             CascadeEvent(taskName, ev.Failed),
                                             "setTaskState")
                         ELSE UNCHANGED <<trs, destroyLog>>
                   /\ dirtyCh' = TRUE
        /\ UNCHANGED <<alloc, allocClientStatus, allocClientDescription, allocHealth,
                       tasks, restored, restoredDead, updateCh, ctxCancelled, allocDir, store,
                       persisted, pc, runAlloc, launchIdx, destroyEvent, runSnap,
                       syncPc, syncSnap, tries, launchCount, restartLog, bcast, subSeen,
                       updaterLog, watchers, now, updatesSent>>

\* setTaskState(taskName, state, event, lazySync), called by the task runner of taskName
setTaskState(taskName, state, event, lazySync) ==
    setTaskStateWithin(MaxCalls, taskName, state, event, lazySync)

-----------------------------------------------------------------------------
(* The Run goroutine. *)

\* the updater callback is handed a snapshot
Updated(snap) ==
    [ClientStatus |-> snap.ClientStatus, ClientDescription |-> snap.ClientDescription]

\* the task of tg.Tasks with Leader set ("" when there is none)
LeaderName ==
    IF \E t \in Tasks : IsLeader(t) THEN CHOOSE t \in Tasks : IsLeader(t) ELSE ""

\* Run, lines 774-786: start the sync goroutine, take the alloc, find the task group
RunStart ==
    /\ pc = "created"
    /\ syncPc' = "idle"
    /\ taskStates' = AllocTaskStates
    /\ IF alloc.TaskGroupOK
          THEN /\ pc' = "build"
               /\ runAlloc' = Alloc
               /\ UNCHANGED <<allocClientStatus, allocClientDescription, dirtyCh>>
          ELSE /\ setStatus(AllocClientStatusFailed, "missing task group")
               /\ pc' = "done"
               /\ runAlloc' = NoSnap
    /\ UNCHANGED <<alloc, allocHealth, tasks, restored, restoredDead, updateCh,
                   ctxCancelled, allocDir, store, persisted, launchIdx, destroyEvent,
                   runSnap, syncSnap, tries, trs, destroyLog, launchCount, restartLog,
                   bcast, subSeen, updaterLog, watchers, now, calls, updatesSent,
                   appended>>

\* Run, lines 788-797: build the allocation directory
RunBuild ==
    /\ pc = "build"
    /\ \E ok \in BOOLEAN :
          IF ok
             THEN /\ allocDir' = "built"
                  /\ pc' = "wait"
                  /\ UNCHANGED <<allocClientStatus, allocClientDescription, dirtyCh, runAlloc>>
             ELSE /\ setStatus(AllocClientStatusFailed, "failed to build task dirs")
                  /\ pc' = "done"
                  /\ runAlloc' = NoSnap
                  /\ UNCHANGED allocDir
    /\ UNCHANGED <<alloc, allocHealth, taskStates, tasks, restored, restoredDead,
                   updateCh, ctxCancelled, store, persisted, launchIdx, destroyEvent,
                   runSnap, syncPc, syncSnap, tries, trs, destroyLog, launchCount,
                   restartLog, bcast, subSeen, updaterLog, watchers, now, calls,
                   updatesSent, appended>>

\* what prevAlloc.Wait and prevAlloc.Migrate may return
WatcherResults == IF ctxCancelled THEN {"nil", "error", "canceled"} ELSE {"nil", "error"}

\* a wait for the previous allocation that treats Canceled as any other error
RunWaitCancelFails ==
    /\ pc = "wait"
    /\ \E res \in WatcherResults :
          IF res = "nil"
             THEN /\ pc' = "migrate"
                  /\ UNCHANGED <<allocClientStatus, allocClientDescription, dirtyCh, runAlloc>>
             ELSE /\ pc' = "done"
                  /\ runAlloc' = NoSnap
                  /\ setStatus(AllocClientStatusFailed,
                               "error while waiting for previous alloc to terminate")
    /\ UNCHANGED <<alloc, allocHealth, taskStates, tasks, restored, restoredDead,
                   updateCh, ctxCancelled, allocDir, store, persisted, launchIdx,
                   destroyEvent, runSnap, syncPc, syncSnap, tries, trs, destroyLog,
                   launchCount, restartLog, bcast, subSeen, updaterLog, watchers, now,
                   calls, updatesSent, appended>>

\* Run, lines 799-806: wait for the previous allocation
RunWait ==
    /\ pc = "wait"
    /\ \E res \in WatcherResults :
          IF res = "nil"
             THEN /\ pc' = "migrate"
                  /\ UNCHANGED <<allocClientStatus, allocClientDescription, dirtyCh, runAlloc>>
             ELSE /\ pc' = "done"
                  /\ runAlloc' = NoSnap
                  /\ IF res = "canceled"
                        THEN UNCHANGED <<allocClientStatus, allocClientDescription, dirtyCh>>
                        ELSE setStatus(AllocClientStatusFailed,
                                       "error while waiting for previous alloc to terminate")
    /\ UNCHANGED <<alloc, allocHealth, taskStates, tasks, restored, restoredDead,
                   updateCh, ctxCancelled, allocDir, store, persisted, launchIdx,
                   destroyEvent, runSnap, syncPc, syncSnap, tries, trs, destroyLog,
                   launchCount, restartLog, bcast, subSeen, updaterLog, watchers, now,
                   calls, updatesSent, appended>>

\* a migration whose error is fatal: no rebuild, the runner fails and exits
RunMigrateHardFail ==
    /\ pc = "migrate"
    /\ \E res \in WatcherResults :
          IF res = "nil"
             THEN /\ pc' = "checkTerminal"
                  /\ UNCHANGED <<allocClientStatus, allocClientDescription, dirtyCh, runAlloc>>
             ELSE /\ pc' = "done"
                  /\ runAlloc' = NoSnap
                  /\ IF res = "canceled"
                        THEN UNCHANGED <<allocClientStatus, allocClientDescription, dirtyCh>>
                        ELSE setStatus(AllocClientStatusFailed, "error while migrating data")
    /\ UNCHANGED <<alloc, allocHealth, taskStates, tasks, restored, restoredDead,
                   updateCh, ctxCancelled, allocDir, store, persisted, launchIdx,
                   destroyEvent, runSnap, syncPc, syncSnap, tries, trs, destroyLog,
                   launchCount, restartLog, bcast, subSeen, updaterLog, watchers, now,
                   calls, updatesSent, appended>>

\* Run, lines 808-824: migrate the previous allocation's data
RunMigrate ==
    /\ pc = "migrate"
    /\ \E res \in WatcherResults, rebuilt \in BOOLEAN :
          IF res = "nil"
             THEN /\ pc' = "checkTerminal"
                  /\ UNCHANGED <<allocClientStatus, allocClientDescription, dirtyCh,
                                 runAlloc, allocDir>>
             ELSE IF res = "canceled"
             THEN /\ pc' = "done"
                  /\ runAlloc' = NoSnap
                  /\ UNCHANGED <<allocClientStatus, allocClientDescription, dirtyCh, allocDir>>
             ELSE IF rebuilt
             THEN /\ allocDir' = "built"
                  /\ pc' = "checkTerminal"
                  /\ UNCHANGED <<allocClientStatus, allocClientDescription, dirtyCh, runAlloc>>
             ELSE /\ allocDir' = "destroyed"
                  /\ setStatus(AllocClientStatusFailed, "failed to rebuild task dirs")
                  /\ pc' = "done"
                  /\ runAlloc' = NoSnap
    /\ UNCHANGED <<alloc, allocHealth, taskStates, tasks, restored, restoredDead,
                   updateCh, ctxCancelled, store, persisted, launchIdx, destroyEvent,
                   runSnap, syncPc, syncSnap, tries, trs, destroyLog, launchCount,
                   restartLog, bcast, subSeen, updaterLog, watchers, now, calls,
                   updatesSent, appended>>

\* Run, lines 826-852: a terminal allocation waits for destroy, another starts the watcher
RunCheckTerminal ==
    /\ pc = "checkTerminal"
    /\ runAlloc' = NoSnap
    /\ launchIdx' = 1
    /\ IF TerminalStatus(runAlloc)
          THEN /\ pc' = "hd_compose"
               /\ IF ~ClientTerminalStatus(runAlloc)
                     THEN setStatus(AllocClientStatusComplete,
                                    "canceled running tasks for allocation in terminal state")
                     ELSE UNCHANGED <<allocClientStatus, allocClientDescription, dirtyCh>>
               /\ UNCHANGED watchers
          ELSE /\ pc' = "launch"
               /\ watchers' = watchers + 1
               /\ UNCHANGED <<allocClientStatus, allocClientDescription, dirtyCh>>
    /\ UNCHANGED <<alloc, allocHealth, taskStates, tasks, restored, restoredDead,
                   updateCh, ctxCancelled, allocDir, store, persisted, destroyEvent,
                   runSnap, syncPc, syncSnap, tries, trs, destroyLog, launchCount,
                   restartLog, bcast, subSeen, updaterLog, now, calls, updatesSent,
                   appended>>

\* a launch loop that does not consult r.restored
RunLaunchAll ==
    /\ pc = "launch"
    /\ IF launchIdx > Len(TaskOrder)
          THEN /\ pc' = "loop"
               /\ UNCHANGED <<launchIdx, taskStates, tasks, trs, launchCount>>
          ELSE LET t == TaskOrder[launchIdx]
               IN  /\ launchIdx' = launchIdx + 1
                   /\ UNCHANGED pc
                   /\ IF FALSE
                         THEN UNCHANGED <<taskStates, tasks, trs, launchCount>>
                         ELSE /\ taskStates' = AllocTaskStates
                              /\ tasks' = tasks \cup {t}
                              /\ trs' = [trs EXCEPT ![t] = [NoRunner EXCEPT !.created = TRUE,
                                                                          !.launched = TRUE]]
                              /\ launchCount' = [launchCount EXCEPT ![t] = @ + 1]
    /\ UNCHANGED <<alloc, allocClientStatus, allocClientDescription, allocHealth,
                   restored, restoredDead, updateCh, dirtyCh, ctxCancelled, allocDir,
                   store, persisted, runAlloc, destroyEvent, runSnap, syncPc, syncSnap,
                   tries, destroyLog, restartLog, bcast, subSeen, updaterLog, watchers,
                   now, calls, updatesSent, appended>>

\* Run, lines 856-872: one iteration of the loop over tg.Tasks, or its end
RunLaunch ==
    /\ pc = "launch"
    /\ IF launchIdx > Len(TaskOrder)
          THEN /\ pc' = "loop"
               /\ UNCHANGED <<launchIdx, taskStates, tasks, trs, launchCount>>
          ELSE LET t == TaskOrder[launchIdx]
               IN  /\ launchIdx' = launchIdx + 1
                   /\ UNCHANGED pc
                   /\ IF t \in restored
                         THEN UNCHANGED <<taskStates, tasks, trs, launchCount>>
                         ELSE /\ taskStates' = AllocTaskStates
                              /\ tasks' = tasks \cup {t}
                              /\ trs' = [trs EXCEPT ![t] = [NoRunner EXCEPT !.created = TRUE,
                                                                          !.launched = TRUE]]
                              /\ launchCount' = [launchCount EXCEPT ![t] = @ + 1]
    /\ UNCHANGED <<alloc, allocClientStatus, allocClientDescription, allocHealth,
                   restored, restoredDead, updateCh, dirtyCh, ctxCancelled, allocDir,
                   store, persisted, runAlloc, destroyEvent, runSnap, syncPc, syncSnap,
                   tries, destroyLog, restartLog, bcast, subSeen, updaterLog, watchers,
                   now, calls, updatesSent, appended>>

\* Run, lines 882-910: an update is taken from updateCh
RunRecvUpdate ==
    /\ pc = "loop"
    /\ updateCh # <<>>
    /\ LET update == Head(updateCh)
       IN  /\ updateCh' = Tail(updateCh)
           /\ allocHealth' = IF alloc.DeploymentID # update.DeploymentID
                                THEN "unset" ELSE allocHealth
           /\ alloc' = update
           /\ watchers' = (watchers - 1) + 1
           /\ IF TerminalStatus(update)
                 THEN /\ destroyEvent' = DestroyEventOf(TaskKilled, "")
                      /\ pc' = "dt_leader"
                      /\ UNCHANGED trs
                 ELSE /\ UNCHANGED destroyEvent
                      /\ ForwardUpdate(update)
                      /\ pc' = "ls_compose"
    /\ UNCHANGED <<allocClientStatus, allocClientDescription, taskStates, tasks, restored,
                   restoredDead, dirtyCh, ctxCancelled, allocDir, store, persisted,
                   runAlloc, launchIdx, runSnap, syncPc, syncSnap, tries, destroyLog,
                   launchCount, restartLog, bcast, subSeen, updaterLog, now, calls,
                   updatesSent, appended>>

\* Run, lines 917-919: the context is done
RunCtxDone ==
    /\ pc = "loop"
    /\ ctxCancelled
    /\ destroyEvent' = DestroyEventOf(TaskKilled, "")
    /\ pc' = "dt_leader"
    /\ UNCHANGED <<alloc, allocClientStatus, allocClientDescription, allocHealth,
                   taskStates, tasks, restored, restoredDead, updateCh, dirtyCh,
                   ctxCancelled, allocDir, store, persisted, runAlloc, launchIdx, runSnap,
                   syncPc, syncSnap, tries, trs, destroyLog, launchCount, restartLog,
                   bcast, subSeen, updaterLog, watchers, now, calls, updatesSent,
                   appended>>

\* syncStatus in the update loop, lines 600-601: compose and hand to the updater
RunSyncCompose ==
    /\ pc = "ls_compose"
    /\ runSnap' = Alloc
    /\ taskStates' = AllocTaskStates
    /\ updaterLog' = Updated(Alloc)
    /\ pc' = "ls_bcast"
    /\ UNCHANGED <<alloc, allocClientStatus, allocClientDescription, allocHealth, tasks,
                   restored, restoredDead, updateCh, dirtyCh, ctxCancelled, allocDir,
                   store, persisted, runAlloc, launchIdx, destroyEvent, syncPc, syncSnap,
                   tries, trs, destroyLog, launchCount, restartLog, bcast, subSeen,
                   watchers, now, calls, updatesSent, appended>>

\* syncStatus in the update loop, line 602
RunSyncBroadcast ==
    /\ pc = "ls_bcast"
    /\ sendBroadcast("run", runSnap)
    /\ pc' = IF SendLeaves("run", runSnap) THEN "ls_save" ELSE pc
    /\ UNCHANGED <<alloc, allocClientStatus, allocClientDescription, allocHealth,
                   taskStates, tasks, restored, restoredDead, updateCh, dirtyCh,
                   ctxCancelled, allocDir, store, persisted, runAlloc, launchIdx,
                   destroyEvent, runSnap, syncPc, syncSnap, trs, destroyLog, launchCount,
                   restartLog, subSeen, updaterLog, watchers, now, calls, updatesSent,
                   appended>>

\* syncStatus in the update loop, line 603
RunSyncSave ==
    /\ pc = "ls_save"
    /\ \E ok \in BOOLEAN : saveAllocRunnerState(ok)
    /\ runSnap' = NoSnap
    /\ pc' = "loop"
    /\ UNCHANGED <<alloc, allocClientStatus, allocClientDescription, allocHealth, tasks,
                   restored, restoredDead, updateCh, dirtyCh, ctxCancelled, allocDir,
                   runAlloc, launchIdx, destroyEvent, syncPc, syncSnap, tries, trs,
                   destroyLog, launchCount, restartLog, bcast, subSeen, updaterLog,
                   watchers, now, calls, updatesSent, appended>>

\* destroyTaskRunners, lines 938-960: destroy the leader first
DtLeader ==
    /\ pc = "dt_leader"
    /\ IF LeaderName # "" /\ LeaderName \in tasks
          THEN /\ DestroyRunners({LeaderName}, destroyEvent, "destroyTaskRunners")
               /\ pc' = "dt_waitLeader"
          ELSE /\ UNCHANGED <<trs, destroyLog>>
               /\ pc' = "dt_others"
    /\ UNCHANGED <<alloc, allocClientStatus, allocClientDescription, allocHealth,
                   taskStates, tasks, restored, restoredDead, updateCh, dirtyCh,
                   ctxCancelled, allocDir, store, persisted, runAlloc, launchIdx,
                   destroyEvent, runSnap, syncPc, syncSnap, tries, launchCount,
                   restartLog, bcast, subSeen, updaterLog, watchers, now, calls,
                   updatesSent, appended>>

\* a teardown that does not wait for the leader
DtSkipWaitLeader ==
    /\ pc = "dt_waitLeader"
    /\ pc' = "dt_others"
    /\ UNCHANGED <<alloc, allocClientStatus, allocClientDescription, allocHealth,
                   taskStates, tasks, restored, restoredDead, updateCh, dirtyCh,
                   ctxCancelled, allocDir, store, persisted, runAlloc, launchIdx,
                   destroyEvent, runSnap, syncPc, syncSnap, tries, trs, destroyLog,
                   launchCount, restartLog, bcast, subSeen, updaterLog, watchers, now,
                   calls, updatesSent, appended>>

\* destroyTaskRunners, line 961: wait for the leader's WaitCh
DtWaitLeader ==
    /\ pc = "dt_waitLeader"
    /\ trs[LeaderName].exited
    /\ pc' = "dt_others"
    /\ UNCHANGED <<alloc, allocClientStatus, allocClientDescription, allocHealth,
                   taskStates, tasks, restored, restoredDead, updateCh, dirtyCh,
                   ctxCancelled, allocDir, store, persisted, runAlloc, launchIdx,
                   destroyEvent, runSnap, syncPc, syncSnap, tries, trs, destroyLog,
                   launchCount, restartLog, bcast, subSeen, updaterLog, watchers, now,
                   calls, updatesSent, appended>>

\* a teardown that leaves the other task runners alone
DtOthersNone ==
    /\ pc = "dt_others"
    /\ pc' = "dt_wait"
    /\ UNCHANGED <<alloc, allocClientStatus, allocClientDescription, allocHealth,
                   taskStates, tasks, restored, restoredDead, updateCh, dirtyCh,
                   ctxCancelled, allocDir, store, persisted, runAlloc, launchIdx,
                   destroyEvent, runSnap, syncPc, syncSnap, tries, trs, destroyLog,
                   launchCount, restartLog, bcast, subSeen, updaterLog, watchers, now,
                   calls, updatesSent, appended>>

\* destroyTaskRunners, lines 965-972: destroy the other task runners
DtOthers ==
    /\ pc = "dt_others"
    /\ DestroyRunners(tasks \ {LeaderName}, destroyEvent, "destroyTaskRunners")
    /\ pc' = "dt_wait"
    /\ UNCHANGED <<alloc, allocClientStatus, allocClientDescription, allocHealth,
                   taskStates, tasks, restored, restoredDead, updateCh, dirtyCh,
                   ctxCancelled, allocDir, store, persisted, runAlloc, launchIdx,
                   destroyEvent, runSnap, syncPc, syncSnap, tries, launchCount,
                   restartLog, bcast, subSeen, updaterLog, watchers, now, calls,
                   updatesSent, appended>>

\* destroyTaskRunners, lines 974-977: wait for every task runner
DtWait ==
    /\ pc = "dt_wait"
    /\ \A t \in tasks : trs[t].exited
    /\ pc' = "hd_compose"
    /\ UNCHANGED <<alloc, allocClientStatus, allocClientDescription, allocHealth,
                   taskStates, tasks, restored, restoredDead, updateCh, dirtyCh,
                   ctxCancelled, allocDir, store, persisted, runAlloc, launchIdx,
                   destroyEvent, runSnap, syncPc, syncSnap, tries, trs, destroyLog,
                   launchCount, restartLog, bcast, subSeen, updaterLog, watchers, now,
                   calls, updatesSent, appended>>

\* handleDestroy, line 985: the final snapshot
HdCompose ==
    /\ pc = "hd_compose"
    /\ runSnap' = Alloc
    /\ taskStates' = AllocTaskStates
    /\ pc' = "hd_bcast"
    /\ UNCHANGED <<alloc, allocClientStatus, allocClientDescription, allocHealth, tasks,
                   restored, restoredDead, updateCh, dirtyCh, ctxCancelled, allocDir,
                   store, persisted, runAlloc, launchIdx, destroyEvent, syncPc, syncSnap,
                   tries, trs, destroyLog, launchCount, restartLog, bcast, subSeen,
                   updaterLog, watchers, now, calls, updatesSent, appended>>

\* handleDestroy, line 997
HdBroadcast ==
    /\ pc = "hd_bcast"
    /\ bcast' = [bcast EXCEPT !.queue = SendQueue(runSnap),
                              !.final = IF SendLeaves("run", runSnap)
                                           THEN Sent(runSnap) ELSE @,
                              !.finalStatus = runSnap.ClientStatus]
    /\ tries' = [tries EXCEPT !["run"] = IF SendLeaves("run", runSnap) THEN 0 ELSE @ + 1]
    /\ pc' = IF SendLeaves("run", runSnap) THEN "hd_save" ELSE pc
    /\ UNCHANGED <<alloc, allocClientStatus, allocClientDescription, allocHealth,
                   taskStates, tasks, restored, restoredDead, updateCh, dirtyCh,
                   ctxCancelled, allocDir, store, persisted, runAlloc, launchIdx,
                   destroyEvent, runSnap, syncPc, syncSnap, trs, destroyLog, launchCount,
                   restartLog, subSeen, updaterLog, watchers, now, calls, updatesSent,
                   appended>>

\* handleDestroy, lines 998-1012: persist, unmount, hand the snapshot to the updater
HdSave ==
    /\ pc = "hd_save"
    /\ \E ok \in BOOLEAN : saveAllocRunnerState(ok)
    /\ updaterLog' = Updated(runSnap)
    /\ runSnap' = NoSnap
    /\ pc' = "hd_wait"
    /\ UNCHANGED <<alloc, allocClientStatus, allocClientDescription, allocHealth, tasks,
                   restored, restoredDead, updateCh, dirtyCh, ctxCancelled, allocDir,
                   runAlloc, launchIdx, destroyEvent, syncPc, syncSnap, tries, trs,
                   destroyLog, launchCount, restartLog, bcast, subSeen, watchers, now,
                   calls, updatesSent, appended>>

\* handleDestroy, lines 1027-1028: an update to a terminal alloc is dropped
HdDropUpdate ==
    /\ pc = "hd_wait"
    /\ updateCh # <<>>
    /\ updateCh' = Tail(updateCh)
    /\ UNCHANGED <<alloc, allocClientStatus, allocClientDescription, allocHealth,
                   taskStates, tasks, restored, restoredDead, dirtyCh, ctxCancelled,
                   allocDir, store, persisted, pc, runAlloc, launchIdx, destroyEvent,
                   runSnap, syncPc, syncSnap, tries, trs, destroyLog, launchCount,
                   restartLog, bcast, subSeen, updaterLog, watchers, now, calls,
                   updatesSent, appended>>

\* a handleDestroy that returns without waiting for the context
HdReturnsAtOnce ==
    /\ pc = "hd_wait"
    /\ pc' = "done"
    /\ UNCHANGED <<alloc, allocClientStatus, allocClientDescription, allocHealth,
                   taskStates, tasks, restored, restoredDead, updateCh, dirtyCh,
                   ctxCancelled, allocDir, store, persisted, runAlloc, launchIdx,
                   destroyEvent, runSnap, syncPc, syncSnap, tries, trs, destroyLog,
                   launchCount, restartLog, bcast, subSeen, updaterLog, watchers, now,
                   calls, updatesSent, appended>>

\* handleDestroy, lines 1016-1026, and Run's return (lines 930, 775)
HdCtxDone ==
    /\ pc = "hd_wait"
    /\ ctxCancelled
    /\ allocDir' = "destroyed"
    /\ store' = [store EXCEPT !.exists = FALSE, !.alloc = NoAlloc, !.immutable = FALSE,
                              !.allocDir = FALSE, !.mutable = NoMutable]
    /\ watchers' = 0
    /\ pc' = "done"
    /\ UNCHANGED <<alloc, allocClientStatus, allocClientDescription, allocHealth,
                   taskStates, tasks, restored, restoredDead, updateCh, dirtyCh,
                   ctxCancelled, persisted, runAlloc, launchIdx, destroyEvent, runSnap,
                   syncPc, syncSnap, tries, trs, destroyLog, launchCount, restartLog,
                   bcast, subSeen, updaterLog, now, calls, updatesSent, appended>>

\* the whole of syncStatus (lines 598-604) in one step: compose, updater, broadcast, save
syncStatus(ok) ==
    /\ updaterLog' = Updated(Alloc)
    /\ bcast' = [bcast EXCEPT !.queue = SendQueue(Alloc)]
    /\ saveAllocRunnerState(ok)

\* an update loop that keeps the health decision whatever the deployment
RunUpdateKeepHealth ==
    /\ pc = "loop"
    /\ updateCh # <<>>
    /\ LET update == Head(updateCh)
       IN  /\ updateCh' = Tail(updateCh)
           /\ allocHealth' = allocHealth
           /\ alloc' = update
           /\ watchers' = (watchers - 1) + 1
           /\ IF TerminalStatus(update)
                 THEN /\ destroyEvent' = DestroyEventOf(TaskKilled, "")
                      /\ pc' = "dt_leader"
                      /\ UNCHANGED trs
                 ELSE /\ UNCHANGED destroyEvent
                      /\ ForwardUpdate(update)
                      /\ pc' = "ls_sync"
    /\ UNCHANGED <<allocClientStatus, allocClientDescription, taskStates, tasks, restored,
                   restoredDead, dirtyCh, ctxCancelled, allocDir, store, persisted,
                   runAlloc, launchIdx, runSnap, syncPc, syncSnap, tries, destroyLog,
                   launchCount, restartLog, bcast, subSeen, updaterLog, now, calls,
                   updatesSent, appended>>

\* an update loop that hands the update to no task runner
RunUpdateForwardsNone ==
    /\ pc = "loop"
    /\ updateCh # <<>>
    /\ LET update == Head(updateCh)
       IN  /\ updateCh' = Tail(updateCh)
           /\ allocHealth' = IF alloc.DeploymentID # update.DeploymentID
                                THEN "unset" ELSE allocHealth
           /\ alloc' = update
           /\ watchers' = (watchers - 1) + 1
           /\ IF TerminalStatus(update)
                 THEN /\ destroyEvent' = DestroyEventOf(TaskKilled, "")
                      /\ pc' = "dt_leader"
                      /\ UNCHANGED trs
                 ELSE /\ UNCHANGED destroyEvent
                      /\ UNCHANGED trs
                      /\ pc' = "ls_sync"
    /\ UNCHANGED <<allocClientStatus, allocClientDescription, taskStates, tasks, restored,
                   restoredDead, dirtyCh, ctxCancelled, allocDir, store, persisted,
                   runAlloc, launchIdx, runSnap, syncPc, syncSnap, tries, destroyLog,
                   launchCount, restartLog, bcast, subSeen, updaterLog, now, calls,
                   updatesSent, appended>>

\* an update loop that starts a watcher without cancelling the previous one
RunUpdateKeepsWatcher ==
    /\ pc = "loop"
    /\ updateCh # <<>>
    /\ LET update == Head(updateCh)
       IN  /\ updateCh' = Tail(updateCh)
           /\ allocHealth' = IF alloc.DeploymentID # update.DeploymentID
                                THEN "unset" ELSE allocHealth
           /\ alloc' = update
           /\ watchers' = watchers + 1
           /\ IF TerminalStatus(update)
                 THEN /\ destroyEvent' = DestroyEventOf(TaskKilled, "")
                      /\ pc' = "dt_leader"
                      /\ UNCHANGED trs
                 ELSE /\ UNCHANGED destroyEvent
                      /\ ForwardUpdate(update)
                      /\ pc' = "ls_sync"
    /\ UNCHANGED <<allocClientStatus, allocClientDescription, taskStates, tasks, restored,
                   restoredDead, dirtyCh, ctxCancelled, allocDir, store, persisted,
                   runAlloc, launchIdx, runSnap, syncPc, syncSnap, tries, destroyLog,
                   launchCount, restartLog, bcast, subSeen, updaterLog, now, calls,
                   updatesSent, appended>>

\* Run, lines 882-915: an update is taken from updateCh and handled in one step
RunUpdate ==
    /\ pc = "loop"
    /\ updateCh # <<>>
    /\ LET update == Head(updateCh)
       IN  /\ updateCh' = Tail(updateCh)
           /\ allocHealth' = IF alloc.DeploymentID # update.DeploymentID
                                THEN "unset" ELSE allocHealth
           /\ alloc' = update
           /\ watchers' = (watchers - 1) + 1
           /\ IF TerminalStatus(update)
                 THEN /\ destroyEvent' = DestroyEventOf(TaskKilled, "")
                      /\ pc' = "dt_leader"
                      /\ UNCHANGED trs
                 ELSE /\ UNCHANGED destroyEvent
                      /\ ForwardUpdate(update)
                      /\ pc' = "ls_sync"
    /\ UNCHANGED <<allocClientStatus, allocClientDescription, taskStates, tasks, restored,
                   restoredDead, dirtyCh, ctxCancelled, allocDir, store, persisted,
                   runAlloc, launchIdx, runSnap, syncPc, syncSnap, tries, destroyLog,
                   launchCount, restartLog, bcast, subSeen, updaterLog, now, calls,
                   updatesSent, appended>>

\* Run, lines 912-915: the update loop's syncStatus in one step
RunSyncStatus ==
    /\ pc = "ls_sync"
    /\ \E ok \in BOOLEAN : syncStatus(ok)
    /\ pc' = "loop"
    /\ UNCHANGED <<alloc, allocClientStatus, allocClientDescription, allocHealth, tasks,
                   restored, restoredDead, updateCh, dirtyCh, ctxCancelled, allocDir,
                   runAlloc, launchIdx, destroyEvent, runSnap, syncPc, syncSnap, tries,
                   trs, destroyLog, launchCount, restartLog, subSeen, watchers, now,
                   calls, updatesSent, appended>>

\* handleDestroy, lines 985-1012, in one step: compose, broadcast, persist, updater
HdSync ==
    /\ pc = "hd_compose"
    /\ updaterLog' = Updated(Alloc)
    /\ bcast' = [bcast EXCEPT !.queue = SendQueue(Alloc), !.final = Sent(Alloc),
                              !.finalStatus = Alloc.ClientStatus]
    /\ \E ok \in BOOLEAN : saveAllocRunnerState(ok)
    /\ pc' = "hd_wait"
    /\ UNCHANGED <<alloc, allocClientStatus, allocClientDescription, allocHealth, tasks,
                   restored, restoredDead, updateCh, dirtyCh, ctxCancelled, allocDir,
                   runAlloc, launchIdx, destroyEvent, runSnap, syncPc, syncSnap, tries,
                   trs, destroyLog, launchCount, restartLog, subSeen, watchers, now,
                   calls, updatesSent, appended>>

\* waitCh is closed when Run has returned
waitChClosed == pc = "done"

-----------------------------------------------------------------------------
(* The dirtySyncState goroutine. *)

\* a sync that composes its snapshot but does not call the updater
SyncComposeNoUpdater ==
    /\ syncPc = "idle"
    /\ dirtyCh
    /\ dirtyCh' = FALSE
    /\ syncSnap' = Alloc
    /\ taskStates' = AllocTaskStates
    /\ syncPc' = "bcast"
    /\ UNCHANGED <<alloc, allocClientStatus, allocClientDescription, allocHealth, tasks,
                   restored, restoredDead, updateCh, ctxCancelled, allocDir, store,
                   persisted, pc, runAlloc, launchIdx, destroyEvent, runSnap, tries, trs,
                   destroyLog, launchCount, restartLog, bcast, subSeen, updaterLog,
                   watchers, now, calls, updatesSent, appended>>

\* dirtySyncState, line 585, and syncStatus, lines 600-601
SyncCompose ==
    /\ syncPc = "idle"
    /\ dirtyCh
    /\ dirtyCh' = FALSE
    /\ syncSnap' = Alloc
    /\ taskStates' = AllocTaskStates
    /\ updaterLog' = Updated(Alloc)
    /\ syncPc' = "bcast"
    /\ UNCHANGED <<alloc, allocClientStatus, allocClientDescription, allocHealth, tasks,
                   restored, restoredDead, updateCh, ctxCancelled, allocDir, store,
                   persisted, pc, runAlloc, launchIdx, destroyEvent, runSnap, tries, trs,
                   destroyLog, launchCount, restartLog, bcast, subSeen, watchers, now,
                   calls, updatesSent, appended>>

\* syncStatus, line 602
SyncBroadcast ==
    /\ syncPc = "bcast"
    /\ sendBroadcast("sync", syncSnap)
    /\ syncPc' = IF SendLeaves("sync", syncSnap) THEN "save" ELSE syncPc
    /\ UNCHANGED <<alloc, allocClientStatus, allocClientDescription, allocHealth,
                   taskStates, tasks, restored, restoredDead, updateCh, dirtyCh,
                   ctxCancelled, allocDir, store, persisted, pc, runAlloc, launchIdx,
                   destroyEvent, runSnap, syncSnap, trs, destroyLog, launchCount,
                   restartLog, subSeen, updaterLog, watchers, now, calls, updatesSent,
                   appended>>

\* syncStatus, line 603
SyncSave ==
    /\ syncPc = "save"
    /\ \E ok \in BOOLEAN : saveAllocRunnerState(ok)
    /\ syncSnap' = NoSnap
    /\ syncPc' = "idle"
    /\ UNCHANGED <<alloc, allocClientStatus, allocClientDescription, allocHealth, tasks,
                   restored, restoredDead, updateCh, dirtyCh, ctxCancelled, allocDir, pc,
                   runAlloc, launchIdx, destroyEvent, runSnap, tries, trs, destroyLog,
                   launchCount, restartLog, bcast, subSeen, updaterLog, watchers, now,
                   calls, updatesSent, appended>>

\* dirtySyncState, lines 591-592
SyncCtxDone ==
    /\ syncPc = "idle"
    /\ ctxCancelled
    /\ syncPc' = "exited"
    /\ UNCHANGED <<alloc, allocClientStatus, allocClientDescription, allocHealth,
                   taskStates, tasks, restored, restoredDead, updateCh, dirtyCh,
                   ctxCancelled, allocDir, store, persisted, pc, runAlloc, launchIdx,
                   destroyEvent, runSnap, syncSnap, tries, trs, destroyLog, launchCount,
                   restartLog, bcast, subSeen, updaterLog, watchers, now, calls,
                   updatesSent, appended>>

\* dirtySyncState, lines 585-590: a signal is taken and syncStatus runs in one step
SyncStatus ==
    /\ syncPc = "idle"
    /\ dirtyCh
    /\ dirtyCh' = FALSE
    /\ IF AllocFaults
          THEN /\ syncPc' = "panicked"
               /\ UNCHANGED <<updaterLog, bcast, store, persisted, taskStates>>
          ELSE /\ UNCHANGED syncPc
               /\ \E ok \in BOOLEAN : syncStatus(ok)
    /\ UNCHANGED <<alloc, allocClientStatus, allocClientDescription, allocHealth, tasks,
                   restored, restoredDead, updateCh, ctxCancelled, allocDir, pc, runAlloc,
                   launchIdx, destroyEvent, runSnap, syncSnap, tries, trs, destroyLog,
                   launchCount, restartLog, subSeen, watchers, now, calls, updatesSent,
                   appended>>

-----------------------------------------------------------------------------
(* The runner's callers and collaborators. *)

\* Destroy(): cancel the context and close the broadcaster
Destroy ==
    /\ ~ctxCancelled
    /\ ctxCancelled' = TRUE
    /\ bcast' = [bcast EXCEPT !.closed = TRUE]
    /\ UNCHANGED <<alloc, allocClientStatus, allocClientDescription, allocHealth,
                   taskStates, tasks, restored, restoredDead, updateCh, dirtyCh, allocDir,
                   store, persisted, pc, runAlloc, launchIdx, destroyEvent, runSnap,
                   syncPc, syncSnap, tries, trs, destroyLog, launchCount, restartLog,
                   subSeen, updaterLog, watchers, now, calls, updatesSent, appended>>

\* an allocation the server pushes
ServerUpdate(deployment, desired) ==
    [EvalID |-> alloc.EvalID + updatesSent + 1, DeploymentID |-> deployment,
     DesiredStatus |-> desired, ClientStatus |-> AllocClientStatusPending,
     Healthy |-> "unset", TaskGroupOK |-> TRUE, AllocModifyIndex |-> updatesSent + 1]

\* an Update that enqueues whatever the length of the queue
UpdateOverfull(limit, update) ==
    /\ updatesSent < limit
    /\ updatesSent' = updatesSent + 1
    /\ updateCh' = Append(updateCh, update)
    /\ UNCHANGED <<alloc, allocClientStatus, allocClientDescription, allocHealth,
                   taskStates, tasks, restored, restoredDead, dirtyCh, ctxCancelled,
                   allocDir, store, persisted, pc, runAlloc, launchIdx, destroyEvent,
                   runSnap, syncPc, syncSnap, tries, trs, destroyLog, launchCount,
                   restartLog, bcast, subSeen, updaterLog, watchers, now, calls, appended>>

\* Update(update): a non-blocking send to updateCh, as one of at most limit calls
UpdateWithin(limit, update) ==
    /\ updatesSent < limit
    /\ updatesSent' = updatesSent + 1
    /\ updateCh' = IF Len(updateCh) < UpdateChCapacity
                      THEN Append(updateCh, update) ELSE updateCh
    /\ UNCHANGED <<alloc, allocClientStatus, allocClientDescription, allocHealth,
                   taskStates, tasks, restored, restoredDead, dirtyCh, ctxCancelled,
                   allocDir, store, persisted, pc, runAlloc, launchIdx, destroyEvent,
                   runSnap, syncPc, syncSnap, tries, trs, destroyLog, launchCount,
                   restartLog, bcast, subSeen, updaterLog, watchers, now, calls, appended>>

\* Update(update): a non-blocking send to updateCh
Update(update) ==
    UpdateWithin(MaxUpdates, update)

\* a task runner's Run returns and closes its WaitCh
TaskRunnerExit(t) ==
    /\ trs[t].launched
    /\ ~trs[t].exited
    /\ trs' = [trs EXCEPT ![t].exited = TRUE]
    /\ UNCHANGED <<alloc, allocClientStatus, allocClientDescription, allocHealth,
                   taskStates, tasks, restored, restoredDead, updateCh, dirtyCh,
                   ctxCancelled, allocDir, store, persisted, pc, runAlloc, launchIdx,
                   destroyEvent, runSnap, syncPc, syncSnap, tries, destroyLog,
                   launchCount, restartLog, bcast, subSeen, updaterLog, watchers, now,
                   calls, updatesSent, appended>>

\* the listener takes the next snapshot from its queue
ListenerReceive ==
    /\ bcast.queue # <<>>
    /\ bcast' = [bcast EXCEPT !.queue = Tail(@)]
    /\ LET status == Head(bcast.queue)
           terminal == status \in {AllocClientStatusComplete, AllocClientStatusFailed}
       IN  subSeen' = [last |-> status,
                       sawTerminal |-> subSeen.sawTerminal \/ terminal,
                       regressed |-> subSeen.regressed \/ (subSeen.sawTerminal /\ ~terminal)]
    /\ UNCHANGED <<alloc, allocClientStatus, allocClientDescription, allocHealth,
                   taskStates, tasks, restored, restoredDead, updateCh, dirtyCh,
                   ctxCancelled, allocDir, store, persisted, pc, runAlloc, launchIdx,
                   destroyEvent, runSnap, syncPc, syncSnap, tries, trs, destroyLog,
                   launchCount, restartLog, updaterLog, watchers, now, calls, updatesSent,
                   appended>>

-----------------------------------------------------------------------------
(* The runner with a fresh allocation. *)

\* an event as a task runner creates it
TaskEvent(type, fails) == [Type |-> type, FailsTask |-> fails, Time |-> now]

\* the calls a task runner makes to setTaskState
Callbacks ==
    { [state |-> TaskStateRunning, event |-> NoEvent, lazy |-> FALSE],
      [state |-> TaskStateDead, event |-> NoEvent, lazy |-> FALSE],
      [state |-> TaskStateDead, event |-> TaskEvent("Terminated", TRUE), lazy |-> FALSE],
      [state |-> TaskStatePending, event |-> TaskEvent("Received", FALSE), lazy |-> TRUE],
      [state |-> "", event |-> NoEvent, lazy |-> FALSE] }

TaskCallback ==
    \E t \in Tasks, c \in Callbacks : setTaskState(t, c.state, c.event, c.lazy)

\* a task runner reports that its task finished
TaskFinishes ==
    \E t \in Tasks : setTaskState(t, TaskStateDead, NoEvent, FALSE)

\* the server stops the allocation
ServerUpdates == {ServerUpdate("d1", "stop")}

\* the server updates the allocation in place, or stops it
AnyUpdates == {ServerUpdate("d1", "run"), ServerUpdate("d1", "stop")}

Next ==
    \/ RunStart
    \/ RunBuild
    \/ RunWait
    \/ RunMigrate
    \/ RunCheckTerminal
    \/ RunLaunch
    \/ RunUpdate
    \/ RunCtxDone
    \/ DtLeader
    \/ DtWaitLeader
    \/ DtOthers
    \/ DtWait
    \/ HdSync
    \/ HdDropUpdate
    \/ HdCtxDone
    \/ SyncStatus
    \/ SyncCtxDone
    \/ Destroy
    \/ \E u \in ServerUpdates : Update(u)
    \/ \E t \in Tasks : TaskRunnerExit(t)
    \/ TaskCallback

Spec == Init /\ [][Next]_vars

-----------------------------------------------------------------------------
(* RestoreState, and the runner restored from the state database. *)

\* a task state as a committed save holds it
SavedTask(kind) ==
    [ZeroTaskState EXCEPT !.State = IF kind = "failed" THEN TaskStateDead ELSE kind,
                          !.Failed = (kind = "failed"),
                          !.StartedAt = 1,
                          !.FinishedAt = IF kind \in {TaskStateDead, "failed"} THEN 1 ELSE 0]

SavedKinds == {"absent", TaskStateRunning, TaskStateDead, "failed"}

\* the task states of a snapshot taken when the tasks were as `kinds` tells
SavedTaskStates(kinds) ==
    LET raw == [t \in {x \in Tasks : kinds[x] # "absent"} |-> SavedTask(kinds[t])]
    IN  finalizeTerminalAlloc(raw, getClientStatus(raw))

\* the bucket an earlier run of the runner left behind
SavedStore(desired, kinds) ==
    [exists |-> TRUE,
     alloc |-> [NewAlloc(desired) EXCEPT
                   !.ClientStatus = getClientStatus(SavedTaskStates(kinds))],
     immutable |-> TRUE,
     allocDir |-> TRUE,
     mutable |-> [AllocClientStatus |-> "", AllocClientDescription |-> "",
                  TaskStates |-> SavedTaskStates(kinds), Healthy |-> "unset"],
     allocWrites |-> 1,
     immutableWrites |-> 1,
     allocDirWrites |-> 1]

\* RestoreState, lines 202-256: read the four records and populate the fields
RestoreRead ==
    /\ pc = "restore"
    /\ IF ~store.exists
          THEN /\ pc' = "restoreFailed"
               /\ UNCHANGED <<alloc, allocDir, allocClientStatus, allocClientDescription,
                              taskStates, launchIdx>>
          ELSE /\ alloc' = [store.alloc EXCEPT
                               !.ClientStatus = getClientStatus(store.mutable.TaskStates),
                               !.Healthy = store.mutable.Healthy]
               /\ allocDir' = "restored"
               /\ allocClientStatus' = store.mutable.AllocClientStatus
               /\ allocClientDescription' = store.mutable.AllocClientDescription
               /\ taskStates' = store.mutable.TaskStates
               /\ launchIdx' = 1
               /\ pc' = IF store.alloc.TaskGroupOK THEN "restoreTasks" ELSE "restoreFailed"
    /\ UNCHANGED <<allocHealth, tasks, restored, restoredDead, updateCh, dirtyCh,
                   ctxCancelled, store, persisted, runAlloc, destroyEvent, runSnap,
                   syncPc, syncSnap, tries, trs, destroyLog, launchCount, restartLog,
                   bcast, subSeen, updaterLog, watchers, now, calls, updatesSent,
                   appended>>

\* what TaskRunner.RestoreState may return: nothing, a restart reason, an error
RestoreOutcomes == {"ok", "reason", "err"}

\* RestoreState, lines 261-314: one iteration of the loop over tg.Tasks, or its end
RestoreTask ==
    /\ pc \in {"restoreTasks", "restoreTasksErr"}
    /\ IF launchIdx > Len(TaskOrder)
          THEN /\ pc' = IF pc = "restoreTasks" THEN "created" ELSE "restoreFailed"
               /\ launchIdx' = 1
               /\ UNCHANGED <<restored, restoredDead, taskStates, tasks, trs, launchCount,
                              restartLog, destroyLog>>
          ELSE LET name == TaskOrder[launchIdx]
               IN  /\ launchIdx' = launchIdx + 1
                   /\ IF name \notin DOMAIN taskStates
                         THEN UNCHANGED <<pc, restored, restoredDead, taskStates, tasks, trs,
                                          launchCount, restartLog, destroyLog>>
                      ELSE IF taskStates[name].State = TaskStateDead
                         THEN /\ restored' = restored \cup {name}
                              /\ restoredDead' = restoredDead \cup {name}
                              /\ UNCHANGED <<pc, taskStates, tasks, trs, launchCount,
                                             restartLog, destroyLog>>
                      ELSE /\ restored' = restored \cup {name}
                           /\ taskStates' = AllocTaskStates
                           /\ tasks' = tasks \cup {name}
                           /\ UNCHANGED restoredDead
                           /\ \E outcome \in RestoreOutcomes :
                                 IF outcome = "err"
                                    THEN /\ pc' = "restoreTasksErr"
                                         /\ trs' = [trs EXCEPT ![name].created = TRUE,
                                                               ![name].restoreResult = outcome]
                                         /\ UNCHANGED <<launchCount, restartLog, destroyLog>>
                                 ELSE IF ~TerminalStatus(alloc)
                                    THEN /\ trs' = [trs EXCEPT ![name].created = TRUE,
                                                               ![name].restoreResult = outcome,
                                                               ![name].launched = TRUE]
                                         /\ launchCount' = [launchCount EXCEPT ![name] = @ + 1]
                                         /\ restartLog' =
                                               IF outcome = "reason"
                                                  THEN [restartLog EXCEPT ![name] =
                                                          Append(@, [Source |-> "upgrade",
                                                                     Failure |-> FALSE])]
                                                  ELSE restartLog
                                         /\ UNCHANGED <<pc, destroyLog>>
                                    ELSE /\ trs' = [trs EXCEPT ![name].created = TRUE,
                                                               ![name].restoreResult = outcome,
                                                               ![name].destroyed = TRUE]
                                         /\ destroyLog' = [destroyLog EXCEPT ![name] =
                                                             Append(@, [Type |-> TaskKilled,
                                                                        FailedSibling |-> "",
                                                                        By |-> "RestoreState"])]
                                         /\ UNCHANGED <<pc, launchCount, restartLog>>
    /\ UNCHANGED <<alloc, allocClientStatus, allocClientDescription, allocHealth,
                   updateCh, dirtyCh, ctxCancelled, allocDir, store, persisted, runAlloc,
                   destroyEvent, runSnap, syncPc, syncSnap, tries, bcast, subSeen,
                   updaterLog, watchers, now, calls, updatesSent, appended>>

\* a runner constructed for an allocation found in the state database
InitRestore ==
    /\ NewAllocRunner(NewAlloc("run"), FALSE)
    /\ \E kinds \in [Tasks -> SavedKinds] :
          store \in {SavedStore("run", kinds), EmptyStore}
    /\ pc = "restore"

NextRestore ==
    \/ RestoreRead
    \/ RestoreTask
    \/ RunStart
    \/ RunBuild
    \/ RunWait
    \/ RunMigrate
    \/ RunCheckTerminal
    \/ RunLaunch
    \/ RunUpdate
    \/ RunSyncStatus
    \/ RunCtxDone
    \/ DtLeader
    \/ DtWaitLeader
    \/ DtOthers
    \/ DtWait
    \/ HdSync
    \/ HdDropUpdate
    \/ HdCtxDone
    \/ SyncStatus
    \/ SyncCtxDone
    \/ Destroy
    \/ \E u \in AnyUpdates : Update(u)
    \/ \E t \in Tasks : TaskRunnerExit(t)
    \/ TaskFinishes

SpecRestore == InitRestore /\ [][NextRestore]_vars

-----------------------------------------------------------------------------
(* The runner with a listener on its broadcaster; syncStatus and handleDestroy *)
(* are taken one call at a time.                                              *)

\* a new runner for a fresh allocation, with one listener subscribed
InitBroadcast ==
    /\ NewAllocRunner(NewAlloc("run"), TRUE)
    /\ store = EmptyStore
    /\ pc = "created"

\* a task runner reports that its task runs (a dead task is not started again)
TaskStarts ==
    \E t \in Tasks :
        /\ t \in DOMAIN taskStates => taskStates[t].State # TaskStateDead
        /\ setTaskState(t, TaskStateRunning, NoEvent, FALSE)

\* a task runner reports that its task failed
TaskFails ==
    \E t \in Tasks :
        setTaskState(t, TaskStateDead, TaskEvent("Terminated", TRUE), FALSE)

NextBroadcast ==
    \/ RunStart
    \/ RunBuild
    \/ RunWait
    \/ RunMigrate
    \/ RunCheckTerminal
    \/ RunLaunch
    \/ RunRecvUpdate
    \/ RunSyncCompose
    \/ RunSyncBroadcast
    \/ RunSyncSave
    \/ RunCtxDone
    \/ DtLeader
    \/ DtWaitLeader
    \/ DtOthers
    \/ DtWait
    \/ HdCompose
    \/ HdBroadcast
    \/ HdSave
    \/ HdDropUpdate
    \/ HdCtxDone
    \/ SyncCompose
    \/ SyncBroadcast
    \/ SyncSave
    \/ SyncCtxDone
    \/ Destroy
    \/ \E u \in AnyUpdates : Update(u)
    \/ \E t \in Tasks : TaskRunnerExit(t)
    \/ TaskStarts
    \/ TaskFails
    \/ ListenerReceive

SpecBroadcast == InitBroadcast /\ [][NextBroadcast]_vars

-----------------------------------------------------------------------------
(* The sync goroutine's runs, step by step, on a runner that gets no update. *)

NextSyncRun ==
    \/ RunStart
    \/ RunBuild
    \/ RunWait
    \/ RunMigrate
    \/ RunCheckTerminal
    \/ RunLaunch
    \/ RunCtxDone
    \/ DtLeader
    \/ DtWaitLeader
    \/ DtOthers
    \/ DtWait
    \/ HdCompose
    \/ HdBroadcast
    \/ HdSave
    \/ HdCtxDone
    \/ SyncCompose
    \/ SyncBroadcast
    \/ SyncSave
    \/ SyncCtxDone
    \/ Destroy
    \/ \E t \in Tasks : TaskRunnerExit(t)
    \/ TaskStarts
    \/ TaskFails
    \/ ListenerReceive

SpecSyncRun == InitBroadcast /\ [][NextSyncRun]_vars

-----------------------------------------------------------------------------
(* The fresh runner under fair scheduling. *)

\* the steps of the Run goroutine
RunGoroutine ==
    \/ RunStart
    \/ RunBuild
    \/ RunWait
    \/ RunMigrate
    \/ RunCheckTerminal
    \/ RunLaunch
    \/ RunUpdate
    \/ RunCtxDone
    \/ DtLeader
    \/ DtWaitLeader
    \/ DtOthers
    \/ DtWait
    \/ HdSync
    \/ HdDropUpdate
    \/ HdCtxDone

\* a destroyed task runner returns from its Run
DestroyedRunnerExits(t) == trs[t].destroyed /\ TaskRunnerExit(t)

\* the Run goroutine is scheduled while it can take a step, the previous-alloc
\* watcher returns, and every destroyed task runner closes its WaitCh
Fairness ==
    /\ WF_vars(RunGoroutine)
    /\ \A t \in Tasks : WF_vars(DestroyedRunnerExits(t))

NextLive ==
    \/ RunGoroutine
    \/ SyncStatus
    \/ SyncCtxDone
    \/ Destroy
    \/ \E u \in ServerUpdates : Update(u)
    \/ \E t \in Tasks : TaskRunnerExit(t)
    \/ TaskFinishes

SpecLive == Init /\ [][NextLive]_vars /\ Fairness

\* the sync goroutine is scheduled too while a dirty signal is pending
SpecSync == Init /\ [][NextLive]_vars /\ Fairness /\ WF_vars(SyncStatus)

-----------------------------------------------------------------------------
(* The life of the tasks: starts, restarts and exits as the wall clock advances. *)

\* time.Now() advances
Tick ==
    /\ now < MaxTime
    /\ now' = now + 1
    /\ UNCHANGED <<alloc, allocClientStatus, allocClientDescription, allocHealth,
                   taskStates, tasks, restored, restoredDead, updateCh, dirtyCh,
                   ctxCancelled, allocDir, store, persisted, pc, runAlloc, launchIdx,
                   destroyEvent, runSnap, syncPc, syncSnap, tries, trs, destroyLog,
                   launchCount, restartLog, bcast, subSeen, updaterLog, watchers, calls,
                   updatesSent, appended>>

\* the task runner of t reports that the task is running
TaskRuns(t) ==
    setTaskStateWithin(MaxLifeCalls, t, TaskStateRunning, NoEvent, FALSE)

\* the task runner of t restarts the task: back to pending with a restart event
TaskRestarts(t) ==
    setTaskStateWithin(MaxLifeCalls, t, TaskStatePending,
                       TaskEvent(TaskRestarting, FALSE), FALSE)

\* the task runner of t reports that the task exited
TaskExits(t) ==
    setTaskStateWithin(MaxLifeCalls, t, TaskStateDead, NoEvent, FALSE)

\* the task runner of t emits an event, a restart or another, without a state
\* change (a lazy call)
TaskNotes(t) ==
    \E type \in {TaskRestarting, "Started"} :
        setTaskStateWithin(MaxLifeCalls, t, "", TaskEvent(type, FALSE), TRUE)

\* a new runner of an allocation the server wants to run
InitTimes ==
    /\ NewAllocRunner(NewAlloc("run"), FALSE)
    /\ store = EmptyStore
    /\ pc = "created"

NextTimes ==
    \/ RunStart
    \/ RunBuild
    \/ RunWait
    \/ RunMigrate
    \/ RunCheckTerminal
    \/ RunLaunch
    \/ SyncStatus
    \/ Tick
    \/ \E t \in Tasks : TaskRuns(t)
    \/ \E t \in Tasks : TaskRestarts(t)
    \/ \E t \in Tasks : TaskExits(t)
    \/ \E t \in Tasks : TaskNotes(t)

SpecTimes == InitTimes /\ [][NextTimes]_vars

-----------------------------------------------------------------------------
(* The event rings: task runners that only emit events. *)

\* the types of the events the task runners emit
EventTypes == {"Received", "Started"}

\* the task runner of t emits an event without a state change (a lazy call)
TaskEmits(t) ==
    \E type \in EventTypes :
        setTaskStateWithin(MaxEventCalls, t, "", TaskEvent(type, FALSE), TRUE)

NextEvents ==
    \/ RunStart
    \/ RunBuild
    \/ RunWait
    \/ RunMigrate
    \/ RunCheckTerminal
    \/ RunLaunch
    \/ \E t \in Tasks : TaskEmits(t)

SpecEvents == InitTimes /\ [][NextEvents]_vars

-----------------------------------------------------------------------------
(* The update queue: a server that pushes in-place updates until updateCh is full. *)

\* an update of the allocation in place: the same evaluation, a newer
\* AllocModifyIndex
InPlaceUpdate == [ServerUpdate("d1", "run") EXCEPT !.EvalID = alloc.EvalID]

\* the server pushes an in-place update of the allocation
ServerPushes ==
    UpdateWithin(MaxUpdateCalls, InPlaceUpdate)

\* the client destroys the runner once the server has pushed its last update
DestroyAfterPushes ==
    /\ updatesSent = MaxUpdateCalls
    /\ Destroy

NextUpdates ==
    \/ RunStart
    \/ RunBuild
    \/ RunWait
    \/ RunMigrate
    \/ RunCheckTerminal
    \/ RunLaunch
    \/ RunUpdate
    \/ RunSyncStatus
    \/ RunCtxDone
    \/ DtLeader
    \/ DtWaitLeader
    \/ DtOthers
    \/ DtWait
    \/ HdSync
    \/ HdDropUpdate
    \/ HdCtxDone
    \/ SyncStatus
    \/ SyncCtxDone
    \/ DestroyAfterPushes
    \/ \E t \in Tasks : DestroyedRunnerExits(t)
    \/ ServerPushes

SpecUpdates == InitTimes /\ [][NextUpdates]_vars

-----------------------------------------------------------------------------
(* The locks of the runner: the lock operations each handler performs, in the
   order of the code, as a function of the state it is called in. *)

Locks ==
    {"allocStateLock", "allocLock", "taskStatusLock", "taskLock", "allocDirLock",
     "persistedEvalLock"}

\* l.Lock() or l.RLock()
Acquire(l) == [op |-> "lock", lock |-> l]

\* l.Unlock() or l.RUnlock()
Release(l) == [op |-> "unlock", lock |-> l]

\* a critical section that takes no other lock
Section(l) == <<Acquire(l), Release(l)>>

\* finalizeTerminalAlloc, lines 472-476
finalizeLocks ==
    IF SnapStatus \in {AllocClientStatusComplete, AllocClientStatusFailed, "lost"}
        THEN Section("taskStatusLock")
        ELSE <<>>

\* Alloc(), lines 498-545
AllocLocks ==
    IF ExplicitStatus
        THEN <<Acquire("allocLock"), Acquire("taskStatusLock"), Release("taskStatusLock"),
               Release("allocLock")>> \o finalizeLocks
        ELSE Section("allocLock") \o Section("taskStatusLock") \o Section("allocLock")
                \o finalizeLocks

\* setStatus, lines 623-626
setStatusLocks == Section("allocLock")

\* saveAllocRunnerState, lines 339-426
saveLocks ==
    <<Acquire("allocStateLock")>>
        \o (IF ctxCancelled
               THEN <<>>
               ELSE AllocLocks \o Section("allocLock") \o Section("allocDirLock")
                       \o Section("persistedEvalLock")
                       \o (IF alloc.EvalID # persisted.eval
                              THEN Section("persistedEvalLock") ELSE <<>>))
        \o <<Release("allocStateLock")>>

\* syncStatus, lines 600-603
syncStatusLocks == AllocLocks \o saveLocks

\* handleDestroy up to its wait loop, lines 985-998
handleDestroyLocks == AllocLocks \o saveLocks

\* one iteration of the launch loop for task t, lines 858-866
launchTaskLocks(t) ==
    IF t \in restored THEN <<>> ELSE Section("allocDirLock") \o AllocLocks

RECURSIVE launchLoopLocks(_)
\* the iterations of the launch loop from the i-th task on
launchLoopLocks(i) ==
    IF i > Len(TaskOrder) THEN <<>>
    ELSE launchTaskLocks(TaskOrder[i]) \o launchLoopLocks(i + 1)

\* the launch of the task runners, lines 856-872
launchLocks ==
    <<Acquire("taskLock")>> \o launchLoopLocks(1) \o <<Release("taskLock")>>

\* the lock operations of the step Run takes next, one sequence per outcome
RunLocks ==
    CASE pc = "created" ->
            {AllocLocks \o (IF alloc.TaskGroupOK THEN <<>> ELSE setStatusLocks)}
      [] pc = "build" ->
            {Section("allocDirLock"), Section("allocDirLock") \o setStatusLocks}
      [] pc \in {"wait", "migrate"} -> {<<>>, setStatusLocks}
      [] pc = "checkTerminal" ->
            {IF TerminalStatus(runAlloc) /\ ~ClientTerminalStatus(runAlloc)
                THEN setStatusLocks ELSE <<>>}
      [] pc = "launch" -> {launchLocks}
      [] pc = "loop" /\ updateCh # <<>> ->
            {Section("allocLock")
                \o (IF TerminalStatus(Head(updateCh)) THEN <<>> ELSE Section("taskLock"))}
      [] pc \in {"ls_sync", "ls_compose"} -> {syncStatusLocks}
      [] pc \in {"dt_leader", "dt_others", "dt_wait"} -> {Section("taskLock")}
      [] pc = "hd_compose" -> {handleDestroyLocks}
      [] pc = "hd_wait" /\ ctxCancelled -> {Section("allocStateLock")}
      [] OTHER -> {}

\* the lock operations of the next syncStatus of the sync goroutine
SyncLocks ==
    IF syncPc = "idle" /\ dirtyCh THEN {syncStatusLocks} ELSE {}

\* the lock operations of the steps the runner's goroutines take next
GoroutineLocks == RunLocks \cup SyncLocks

\* the locks held after the first i operations of a sequence
HeldAfter(ops, i) ==
    {l \in Locks :
        Cardinality({j \in 1..i : ops[j] = Acquire(l)})
            > Cardinality({j \in 1..i : ops[j] = Release(l)})}

\* a read or a write of a field of the runner
Access(field) == [op |-> "access", lock |-> field]

\* setTaskState with the state dead, lines 637-638 and 695-707: the loop over r.tasks
setTaskStateAccess ==
    <<Acquire("taskStatusLock"), Access("tasks"), Release("taskStatusLock")>>

\* one iteration of the loop of RestoreState, lines 272 and 289
RestoreAccess == <<Access("restored"), Access("tasks")>>

\* the launch loop of Run, lines 856-872
launchAccess ==
    <<Acquire("taskLock"), Access("restored"), Access("tasks"), Release("taskLock")>>

\* the accesses to r.tasks and r.restored that can be under way in the current
\* state: by RestoreState, by the launch loop, by a task runner's callback
TasksAccess ==
    (IF pc \in {"restoreTasks", "restoreTasksErr"} THEN {RestoreAccess} ELSE {})
        \cup (IF pc = "launch" THEN {launchAccess} ELSE {})
        \cup (IF \E t \in Tasks : trs[t].launched /\ ~trs[t].exited
                 THEN {setTaskStateAccess} ELSE {})

-----------------------------------------------------------------------------
(* A runner started on an allocation the server has already stopped. *)

\* a new runner of an allocation whose DesiredStatus is stop
InitTerminal ==
    /\ NewAllocRunner(NewAlloc("stop"), FALSE)
    /\ store = EmptyStore
    /\ pc = "created"

NextTerminal ==
    \/ RunStart
    \/ RunBuild
    \/ RunWait
    \/ RunMigrate
    \/ RunCheckTerminal
    \/ HdSync
    \/ HdDropUpdate
    \/ HdCtxDone
    \/ SyncStatus
    \/ SyncCtxDone
    \/ Destroy
    \/ \E u \in AnyUpdates : Update(u)

SpecTerminal == InitTerminal /\ [][NextTerminal]_vars

-----------------------------------------------------------------------------
(* A runner whose allocation may name a task group the job does not have. *)

\* a new runner of an allocation whose task group the job has, or has not
InitMissingGroup ==
    /\ \E desired \in {"run", "stop"}, found \in BOOLEAN :
          NewAllocRunner([NewAlloc(desired) EXCEPT !.TaskGroupOK = found], FALSE)
    /\ store = EmptyStore
    /\ pc = "created"

SpecMissingGroup == InitMissingGroup /\ [][Next]_vars

-----------------------------------------------------------------------------
(* Deployment health: the watcher decides, the server moves the allocation to
   another deployment. *)

\* the health watcher concludes and sets r.allocHealth
WatcherDecides ==
    /\ watchers > 0
    /\ ~ctxCancelled
    /\ \E h \in {"true", "false"} : allocHealth' = h
    /\ UNCHANGED <<alloc, allocClientStatus, allocClientDescription, taskStates, tasks,
                   restored, restoredDead, updateCh, dirtyCh, ctxCancelled, allocDir,
                   store, persisted, pc, runAlloc, launchIdx, destroyEvent, runSnap,
                   syncPc, syncSnap, tries, trs, destroyLog, launchCount, restartLog,
                   bcast, subSeen, updaterLog, watchers, now, calls, updatesSent,
                   appended>>

\* in-place updates within the deployment and into another deployment
HealthUpdates == {ServerUpdate("d1", "run"), ServerUpdate("d2", "run")}

NextHealth ==
    \/ RunStart
    \/ RunBuild
    \/ RunWait
    \/ RunMigrate
    \/ RunCheckTerminal
    \/ RunLaunch
    \/ RunUpdate
    \/ RunSyncStatus
    \/ SyncStatus
    \/ WatcherDecides
    \/ \E t \in Tasks : TaskRuns(t)
    \/ \E u \in HealthUpdates : Update(u)

SpecHealth == InitTimes /\ [][NextHealth]_vars

-----------------------------------------------------------------------------
(* A runner restored with an explicit status: an earlier Run failed before it
   launched a task, and the client restarted. *)

\* the bucket holds what the sync after setStatus(failed, ...) wrote
InitExplicit ==
    /\ NewAllocRunner(NewAlloc("run"), FALSE)
    /\ \E desc \in {"failed to build task dirs", "error while migrating data"} :
          store = [SavedStore("run", [t \in Tasks |-> "absent"]) EXCEPT
                      !.alloc.ClientStatus = AllocClientStatusFailed,
                      !.mutable.AllocClientStatus = AllocClientStatusFailed,
                      !.mutable.AllocClientDescription = desc,
                      !.mutable.TaskStates =
                          finalizeTerminalAlloc(EmptyMap, AllocClientStatusFailed)]
    /\ pc = "restore"

NextExplicit ==
    \/ RestoreRead
    \/ RestoreTask
    \/ RunStart
    \/ RunBuild
    \/ RunWait
    \/ RunMigrate
    \/ RunCheckTerminal
    \/ HdSync
    \/ HdCtxDone
    \/ SyncStatus
    \/ SyncCtxDone
    \/ Destroy
    \/ TaskStarts
    \/ TaskFinishes

SpecExplicit == InitExplicit /\ [][NextExplicit]_vars

-----------------------------------------------------------------------------
(* Properties of the runner with a fresh allocation (specification Spec). *)

\* C1: for every map of task states getClientStatus returns failed if a task is
\* dead and failed, else running if a task is running, else pending if a task is
\* pending, else complete if all tasks are dead and none failed, else "".
\* Stated over the task states the runner reaches.
C1_StatusTable ==
    LET ts == taskStates
        anyFailed  == \E t \in DOMAIN ts : ts[t].State = TaskStateDead /\ ts[t].Failed
        anyRunning == \E t \in DOMAIN ts : ts[t].State = TaskStateRunning
        anyPending == \E t \in DOMAIN ts : ts[t].State = TaskStatePending
        allDead    == /\ DOMAIN ts # {}
                      /\ \A t \in DOMAIN ts : ts[t].State = TaskStateDead /\ ~ts[t].Failed
        table      == IF anyFailed THEN AllocClientStatusFailed
                      ELSE IF anyRunning THEN AllocClientStatusRunning
                      ELSE IF anyPending THEN AllocClientStatusPending
                      ELSE IF allDead THEN AllocClientStatusComplete
                      ELSE ""
    IN  getClientStatus(ts) = table

\* the Destroy calls of a log with the given event
DestroysWith(log, type, sibling) ==
    {i \in 1..Len(log) : log[i].Type = type /\ log[i].FailedSibling = sibling}

\* C2: whenever a task is dead with Failed set, every other task runner of the
\* allocation has received Destroy with a TaskSiblingFailed event naming the dead
\* task exactly once, whatever the interleaving with Run launching task runners.
C2_SiblingCascadeOnce ==
    \A t \in DOMAIN taskStates :
        (taskStates[t].State = TaskStateDead /\ taskStates[t].Failed)
            => \A u \in Tasks \ {t} :
                   trs[u].launched
                       => Cardinality(DestroysWith(destroyLog[u], TaskSiblingFailed, t)) = 1

\* C3: a step in which the leader becomes dead with Failed unset appends one
\* Destroy(TaskLeaderDead) to every other task runner the runner holds; a step in
\* which a non-leader becomes dead with Failed unset calls Destroy on no runner.
C3_LeaderCascade ==
    [][\A t \in Tasks :
          LET before == IF t \in DOMAIN taskStates THEN taskStates[t].State ELSE ""
          IN  (/\ before # TaskStateDead
               /\ t \in DOMAIN taskStates'
               /\ taskStates'[t].State = TaskStateDead
               /\ ~taskStates'[t].Failed)
                  => IF IsLeader(t)
                        THEN \A u \in Tasks \ {t} :
                                destroyLog'[u] =
                                    IF u \in tasks
                                       THEN Append(destroyLog[u],
                                                   [Type |-> TaskLeaderDead,
                                                    FailedSibling |-> "",
                                                    By |-> "setTaskState"])
                                       ELSE destroyLog[u]
                        ELSE destroyLog' = destroyLog]_vars

\* the leader died cleanly after a non-leader did: the non-leader's death destroyed
\* nothing, the leader's death destroyed the non-leader
C3_Witness ==
    /\ "t1" \in DOMAIN taskStates /\ "t2" \in DOMAIN taskStates
    /\ taskStates["t1"].State = TaskStateDead /\ ~taskStates["t1"].Failed
    /\ taskStates["t2"].State = TaskStateDead /\ ~taskStates["t2"].Failed
    /\ destroyLog["t1"] = <<>>
    /\ Len(destroyLog["t2"]) = 1
    /\ destroyLog["t2"][1].Type = TaskLeaderDead

\* C4 as stated: while the runner tears down its task runners and the leader's
\* WaitCh is not closed, Destroy is called on no non-leader task runner.
C4_NoDestroyBeforeLeaderExit ==
    [][(/\ pc \in {"dt_leader", "dt_waitLeader"}
        /\ LeaderName \in tasks
        /\ ~trs[LeaderName].exited)
           => \A u \in tasks \ {LeaderName} : destroyLog'[u] = destroyLog[u]]_vars

\* C4, amended: a Destroy that destroyTaskRunners itself calls on a non-leader
\* comes after its Destroy of the leader and after the leader's WaitCh closed.
C4_TeardownOrder ==
    \A u \in tasks \ {LeaderName} :
        (\E i \in 1..Len(destroyLog[u]) : destroyLog[u][i].By = "destroyTaskRunners")
            => (LeaderName \in tasks
                   => /\ trs[LeaderName].exited
                      /\ \E j \in 1..Len(destroyLog[LeaderName]) :
                            destroyLog[LeaderName][j].By = "destroyTaskRunners")

\* destroyTaskRunners destroyed a non-leader while a leader runner exists
C4_Witness ==
    /\ LeaderName \in tasks
    /\ \E u \in tasks \ {LeaderName} :
          \E i \in 1..Len(destroyLog[u]) : destroyLog[u][i].By = "destroyTaskRunners"

\* C5: once a task's state is dead it stays dead through every later setTaskState
\* call, so no snapshot shows it running or pending again.
C5_DeadStaysDead ==
    [][\A t \in DOMAIN taskStates :
          taskStates[t].State = TaskStateDead
              => (t \in DOMAIN taskStates' /\ taskStates'[t].State = TaskStateDead)]_vars

-----------------------------------------------------------------------------
(* Properties of the restored runner (specification SpecRestore). *)

\* C9: a task that RestoreState found dead in the persisted state never gets a
\* task runner, created or launched, by RestoreState or by Run; and every task of
\* the group has at most one task runner launched across RestoreState and Run.
C9_RestoreSkipsDead ==
    /\ \A t \in restoredDead :
          /\ ~trs[t].created
          /\ ~trs[t].launched
          /\ t \notin tasks
          /\ launchCount[t] = 0
    /\ \A t \in Tasks : launchCount[t] <= 1

\* Run has gone through its launch loop after a restore that found a task dead and
\* launched another
C9_Witness ==
    /\ restoredDead # {}
    /\ pc = "loop"
    /\ \E u \in restored \ restoredDead : launchCount[u] = 1

\* C10: restored from a state with t1 dead and failed and t2 running, once
\* RestoreState has returned there is no task runner for t1, t2's task runner is
\* created, restored and launched and has received a non-failure "upgrade" restart
\* when its restore gave a reason; and the final status is failed.
C10_RestoreAfterCrash ==
    (/\ restoredDead = {"t1"}
     /\ taskStates["t1"].Failed
     /\ trs["t2"].restoreResult \in {"ok", "reason"}
     /\ taskStates["t2"].State = TaskStateRunning)
        => /\ pc = "created"
              => /\ ~trs["t1"].created
                 /\ trs["t2"].created
                 /\ trs["t2"].launched
                 /\ trs["t2"].restoreResult = "reason"
                       => restartLog["t2"] = <<[Source |-> "upgrade", Failure |-> FALSE]>>
           /\ pc \in {"hd_wait", "done"} => SnapStatus = AllocClientStatusFailed

-----------------------------------------------------------------------------
(* Properties of the broadcasts (specification SpecBroadcast). *)

\* C7: the listener never receives a snapshot with a non-terminal status after it
\* has received one with a terminal status, whatever the interleaving of the sync
\* goroutine's syncStatus, the update loop's syncStatus and handleDestroy.
C7_NoNonTerminalAfterTerminal == ~subSeen.regressed

\* C8: when the runner is destroyed, the terminal snapshot that handleDestroy
\* composed has been accepted by the broadcaster, whether the destruction came
\* from a terminal update or from Destroy().
C8_FinalSnapshotAccepted ==
    (/\ pc = "done"
     /\ bcast.finalStatus \in {AllocClientStatusComplete, AllocClientStatusFailed})
        => bcast.final = "accepted"

-----------------------------------------------------------------------------
(* Termination (specification SpecLive). *)

\* C6: once Destroy() has been called on a runner whose Run has started, waitCh
\* is eventually closed, wherever Run is: waiting for the previous allocation,
\* migrating, launching, in the update loop, tearing down or in handleDestroy.
C6_DestroyClosesWaitCh == (ctxCancelled /\ pc # "created") ~> waitChClosed

\* Run has returned after Destroy() and after tearing down both task runners
C6_Witness ==
    /\ ctxCancelled
    /\ waitChClosed
    /\ \A t \in Tasks : trs[t].destroyed /\ trs[t].exited

-----------------------------------------------------------------------------
(* Properties of persistence. *)

\* C11: a committed transaction of saveAllocRunnerState writes the alloc record
\* only when the snapshot's EvalID differs from the EvalID of the last committed
\* write of the alloc record, and it writes it whenever the two differ.
C11_AllocWriteGated ==
    [][/\ store'.allocWrites # store.allocWrites
           => (store.allocWrites = 0 \/ alloc.EvalID # store.alloc.EvalID)
       /\ (store'.exists /\ store.exists /\ alloc.EvalID # store.alloc.EvalID
            /\ store'.mutable # store.mutable)
           => store'.allocWrites = store.allocWrites + 1]_vars

\* C12: over the whole lifetime of an allocation, a restart followed by
\* RestoreState and further syncs included, the immutable record and the
\* alloc-dir record are each written to the state store at most once.
C12_WrittenOnce ==
    /\ store.immutableWrites <= 1
    /\ store.allocDirWrites <= 1

-----------------------------------------------------------------------------
(* Properties of the task-state timestamps. *)

\* the snapshots the runner's goroutines hold, and the one Alloc() returns now
HeldSnapshots == {s \in {Alloc, runAlloc, runSnap, syncSnap} : s # NoSnap}

\* C13: every snapshot Alloc() returns whose ClientStatus is terminal (derived
\* from the task states or set explicitly) has, for every task of the group, a
\* task-state entry whose FinishedAt is not zero.
C13_TerminalSnapshotFinished ==
    \A s \in HeldSnapshots :
        ClientTerminalStatus(s) =>
            \A t \in Tasks : /\ t \in DOMAIN s.TaskStates
                             /\ s.TaskStates[t].FinishedAt # 0

\* a terminal snapshot in which finalizeTerminalAlloc filled in the FinishedAt
\* of a task that never reported dead
C13_Witness ==
    /\ ClientTerminalStatus(Alloc)
    /\ \E t \in Tasks : /\ t \in DOMAIN taskStates
                        /\ taskStates[t].State # TaskStateDead
                        /\ taskStates[t].FinishedAt # 0


\* C14: FinishedAt is set only on the transition of a task into dead: every
\* task whose FinishedAt is not zero has State = dead.
C14_FinishedOnlyWhenDead ==
    \A t \in DOMAIN taskStates :
        taskStates[t].FinishedAt # 0 => taskStates[t].State = TaskStateDead

\* C15: StartedAt is assigned at most once: once a task has a StartedAt, no
\* later call of setTaskState (running, back to pending on a restart, running
\* again) changes it.
C15_StartedAtOnce ==
    [][\A t \in DOMAIN taskStates :
          taskStates[t].StartedAt # 0
              => taskStates'[t].StartedAt = taskStates[t].StartedAt]_vars

-----------------------------------------------------------------------------
(* Properties of the event ring. *)

\* the last k elements of s
LastOf(s, k) == SubSeq(s, Len(s) - k + 1, Len(s))

\* C16: after any sequence of appendTaskEvent calls on a task state, the event
\* list has at most 10 entries and is the last min(n, 10) of the n appended
\* events, in the order they were appended.
C16_EventRing ==
    \A t \in DOMAIN taskStates :
        LET n == Len(appended[t])
            k == IF n < EventCapacity THEN n ELSE EventCapacity
        IN  /\ Len(taskStates[t].Events) <= 10
            /\ taskStates[t].Events = LastOf(appended[t], k)

\* a ring that has dropped its two oldest events, of both types
C16_Witness ==
    \E t \in DOMAIN taskStates :
        /\ Len(appended[t]) = EventCapacity + 2
        /\ Len(taskStates[t].Events) = EventCapacity
        /\ appended[t][1] # appended[t][2]

-----------------------------------------------------------------------------
(* Properties of the update queue. *)

\* the pending updates are in the order they were accepted (ServerUpdate numbers
\* the updates by AllocModifyIndex) and all newer than the allocation the runner
\* holds
UpdatesInOrder ==
    /\ \A i, j \in 1..Len(updateCh) :
          i < j => updateCh[i].AllocModifyIndex < updateCh[j].AllocModifyIndex
    /\ \A i \in 1..Len(updateCh) :
          alloc.AllocModifyIndex < updateCh[i].AllocModifyIndex

\* a step of the queue: the update loop applies the oldest pending update, and
\* Update() appends to the end or, with 64 pending, changes nothing
UpdateStep ==
    /\ alloc' # alloc
          => /\ updateCh # <<>>
             /\ alloc' = Head(updateCh)
             /\ updateCh' = Tail(updateCh)
    /\ updatesSent' # updatesSent
          => /\ alloc' = alloc
             /\ IF Len(updateCh) = 64
                   THEN updateCh' = updateCh
                   ELSE /\ Len(updateCh') = Len(updateCh) + 1
                        /\ SubSeq(updateCh', 1, Len(updateCh)) = updateCh
    /\ (updatesSent' = updatesSent /\ updateCh' # updateCh)
          => updateCh' = Tail(updateCh)

\* C17: updates accepted by Update() are applied by the update loop in the order
\* they were accepted; Update() never blocks its caller; an update offered while
\* 64 updates are pending is dropped and leaves the queue and the runner's
\* allocation unchanged.
C17_UpdateQueue ==
    /\ [](UpdatesInOrder /\ Len(updateCh) <= 64)
    /\ [](updatesSent < MaxUpdateCalls => ENABLED ServerPushes)
    /\ [][UpdateStep]_vars

\* one update applied, 64 pending and one dropped
C17_Witness ==
    /\ Len(updateCh) = 64
    /\ alloc.AllocModifyIndex = 1
    /\ updatesSent = 66

-----------------------------------------------------------------------------
(* Properties of the locks. *)

\* the order in which locks may be acquired
LockOrder == <<"allocStateLock", "allocLock", "taskStatusLock", "taskLock", "allocDirLock">>

\* the position of a lock in LockOrder (0: not in the order)
LockRank(l) ==
    IF \E i \in 1..Len(LockOrder) : LockOrder[i] = l
        THEN CHOOSE i \in 1..Len(LockOrder) : LockOrder[i] = l
        ELSE 0

\* C18: every goroutine of the runner acquires locks only in the order
\* allocStateLock, allocLock, taskStatusLock, taskLock, allocDirLock: it never
\* acquires a lock while it holds one that comes later in the order.
C18_LockOrder ==
    \A ops \in GoroutineLocks :
        \A i \in 1..Len(ops) :
            (ops[i].op = "lock" /\ LockRank(ops[i].lock) > 0)
                => \A h \in HeldAfter(ops, i - 1) :
                       LockRank(h) > 0 => LockRank(h) < LockRank(ops[i].lock)

\* C19: no goroutine of the runner holds more than two of the runner's locks at
\* the same time.
C19_AtMostTwoLocks ==
    \A ops \in GoroutineLocks :
        \A i \in 1..Len(ops) : Cardinality(HeldAfter(ops, i)) <= 2

-----------------------------------------------------------------------------
(* Properties of the end of Run. *)

\* C20: whenever the runner's wait channel is closed (IsDestroyed() is true),
\* the state bucket of the allocation has been deleted and the allocation
\* directory has been destroyed, on every exit path of Run.
C20_ClosedMeansDestroyed ==
    waitChClosed => (~store.exists /\ allocDir = "destroyed")

-----------------------------------------------------------------------------
(* Scenarios of Run. *)

\* C21: when Run starts on an allocation the server has stopped, and neither the
\* directory build nor the wait for the predecessor fails: no task runner is
\* created (Run never reaches the launch), the allocation directory is built,
\* the persisted mutable record shows ClientStatus = complete, and WaitCh closes
\* only after Destroy() has been called.
C21_TerminalOnStart ==
    /\ tasks = {}
    /\ \A t \in Tasks : ~trs[t].created
    /\ pc \notin {"launch", "loop"}
    /\ pc \in {"hd_compose", "hd_wait"}
          => /\ allocDir = "built"
             /\ allocClientStatus = AllocClientStatusComplete
    /\ (pc = "hd_wait" /\ store.exists)
          => store.mutable.AllocClientStatus = AllocClientStatusComplete
    /\ (waitChClosed /\ allocClientStatus # AllocClientStatusFailed) => ctxCancelled

\* Run has returned through handleDestroy after a Destroy(), and before that the
\* complete status was persisted
C21_Witness ==
    /\ waitChClosed
    /\ ctxCancelled
    /\ allocClientStatus = AllocClientStatusComplete
    /\ allocDir = "destroyed"
    /\ store.immutableWrites = 1

\* C22: when the task group of the allocation cannot be resolved, Run sets the
\* explicit status failed with the description "missing task group", starts no
\* task runner and exits, and the status sync that follows composes its snapshot
\* without fault and hands the updater ClientStatus = failed with that description.
C22_MissingGroup ==
    /\ syncPc # "panicked"
    /\ (~alloc.TaskGroupOK /\ waitChClosed)
          => /\ allocClientStatus = AllocClientStatusFailed
             /\ allocClientDescription = "missing task group"
             /\ tasks = {}
    /\ (~alloc.TaskGroupOK /\ waitChClosed /\ ~dirtyCh /\ syncPc = "idle")
          => updaterLog = [ClientStatus |-> AllocClientStatusFailed,
                           ClientDescription |-> "missing task group"]

\* C23: when the update loop applies an update whose DeploymentID differs from
\* that of the current allocation, allocHealth is cleared, a health watcher runs
\* again, and the next snapshot carries no Healthy value overlaid from the old
\* decision; when the DeploymentID is the same, allocHealth is left unchanged.
C23_HealthOnUpdate ==
    [][alloc' # alloc
          => /\ watchers' > 0
             /\ IF alloc'.DeploymentID # alloc.DeploymentID
                   THEN /\ allocHealth' = "unset"
                        /\ SnapStatus' # AllocClientStatusFailed
                              => SnapHealthy' = alloc'.Healthy
                   ELSE allocHealth' = allocHealth]_vars

\* an update into deployment d2 has just been applied after a health decision
\* that an earlier sync had persisted
C23_Witness ==
    /\ pc = "ls_sync"
    /\ alloc.DeploymentID = "d2"
    /\ allocHealth = "unset"
    /\ store.mutable.Healthy \in {"true", "false"}

\* C24: the migration step of Run either goes on to the terminal check with the
\* directory built (Migrate succeeded, or it failed and the directory was
\* destroyed and rebuilt) and the status untouched, or returns on a cancellation
\* with the status untouched, or returns with the directory destroyed and the
\* status failed "failed to rebuild task dirs"; a Migrate error alone never sets
\* failed.
C24_MigrateSoftFail ==
    [][pc = "migrate"
          => \/ pc' = "migrate"
             \/ /\ pc' = "checkTerminal"
                /\ allocDir' = "built"
                /\ UNCHANGED <<allocClientStatus, allocClientDescription>>
             \/ /\ pc' = "done"
                /\ ctxCancelled
                /\ UNCHANGED <<allocClientStatus, allocClientDescription, allocDir>>
             \/ /\ pc' = "done"
                /\ allocDir' = "destroyed"
                /\ allocClientStatus' = AllocClientStatusFailed
                /\ allocClientDescription' = "failed to rebuild task dirs"]_vars

\* Migrate failed and so did the rebuild: Run has returned with the status failed
C24_Witness ==
    /\ waitChClosed
    /\ ~ctxCancelled
    /\ allocDir = "destroyed"
    /\ allocClientDescription = "failed to rebuild task dirs"

-----------------------------------------------------------------------------
(* Properties of the status sync. *)

\* the bucket holds the runner's current status and task states
StoreCurrent ==
    /\ store.exists
    /\ store.mutable.AllocClientStatus = allocClientStatus
    /\ store.mutable.AllocClientDescription = allocClientDescription
    /\ store.mutable.TaskStates = taskStates

\* a sync has run (the updater was called), no signal is pending, and the bucket
\* does not hold the current state: the last write failed
WriteFailed ==
    /\ updaterLog.ClientStatus # "none"
    /\ syncPc = "idle"
    /\ ~dirtyCh
    /\ ~StoreCurrent

\* C25: a failed persistence write is retried: after saveAllocRunnerState has
\* failed during a sync, a later sync persists the current state even without a
\* further state change, unless the runner is destroyed.
C25_FailedWriteRetried ==
    WriteFailed ~> (StoreCurrent \/ ctxCancelled)

\* C26: whenever a snapshot composed without an explicit status has
\* ClientStatus = complete, every task of the group has a task state with
\* State = dead and Failed = FALSE.
C26_CompleteMeansAllDead ==
    (~ExplicitStatus /\ Alloc.ClientStatus = AllocClientStatusComplete)
        => \A t \in Tasks :
              /\ t \in DOMAIN Alloc.TaskStates
              /\ Alloc.TaskStates[t].State = TaskStateDead
              /\ ~Alloc.TaskStates[t].Failed

-----------------------------------------------------------------------------
(* Properties of the persistence transaction. *)

\* C27: the persisted-eval marker and the two persisted flags change only when
\* the transaction commits: a marker is set only for a record that a committed
\* transaction wrote, a step that changes a marker commits a write, and a
\* committed bucket holds all its records (after a failed transaction the next
\* persist writes them again).
C27_MarkersOnCommit ==
    /\ [](/\ persisted.eval # 0 => store.allocWrites >= 1
          /\ persisted.immutable => store.immutableWrites >= 1
          /\ persisted.allocDir => store.allocDirWrites >= 1
          /\ store.exists => /\ store.alloc.EvalID # 0
                             /\ store.immutable
                             /\ store.allocDir)
    /\ [][persisted' # persisted
             => /\ store'.exists
                /\ store'.mutable.AllocClientStatus = allocClientStatus]_vars

\* a sync has run and its transaction failed: nothing is in the bucket and the
\* three markers still have their initial values
C27_Witness ==
    /\ updaterLog.ClientStatus # "none"
    /\ ~ctxCancelled
    /\ ~store.exists
    /\ store.immutableWrites = 0
    /\ persisted = [eval |-> 0, immutable |-> FALSE, allocDir |-> FALSE]

-----------------------------------------------------------------------------
(* Properties of one syncStatus run of the sync goroutine. *)

\* a step of the sync goroutine
SyncStep == syncPc' # syncPc \/ tries'["sync"] # tries["sync"]

\* C28: a syncStatus run composes a fresh snapshot and hands that snapshot to
\* the updater, then broadcasts that snapshot, then writes; a write that is not
\* skipped because of cancellation and commits writes the mutable record from
\* the runner's state at the time of the write; the write, failed or not,
\* leaves the updater's call in place.
C28_SyncOrder ==
    [][SyncStep =>
         /\ <<syncPc, syncPc'>> \in {<<"off", "idle">>, <<"idle", "bcast">>,
                                     <<"bcast", "bcast">>, <<"bcast", "save">>,
                                     <<"save", "idle">>, <<"idle", "exited">>}
         /\ syncPc' = "bcast" /\ syncPc = "idle"
                => /\ syncSnap' = Alloc
                   /\ updaterLog' = Updated(syncSnap')
                   /\ UNCHANGED <<bcast, store>>
         /\ syncPc = "bcast"
                => /\ bcast'.queue \in {bcast.queue,
                                        Append(bcast.queue, syncSnap.ClientStatus)}
                   /\ UNCHANGED <<updaterLog, store, syncSnap>>
         /\ syncPc = "save"
                => /\ UNCHANGED <<updaterLog, bcast>>
                   /\ ctxCancelled => store' = store
                   /\ store' # store
                         => /\ store'.mutable.AllocClientStatus = allocClientStatus
                            /\ store'.mutable.AllocClientDescription = allocClientDescription
                            /\ store'.mutable.TaskStates = Alloc.TaskStates
                            /\ store'.mutable.TaskStates = taskStates']_vars

\* C28 as stated: the write of a syncStatus run uses the snapshot the run
\* composed for the updater and the broadcast.
C28_OneSnapshot ==
    [][(syncPc = "save" /\ syncPc' = "idle" /\ store' # store)
          => store'.mutable.TaskStates = syncSnap.TaskStates]_vars

\* a run of the sync goroutine has called the updater with its snapshot and has
\* broadcast it; its write is still to come and nothing is in the bucket yet
C28_Witness ==
    /\ syncPc = "save"
    /\ ~ctxCancelled
    /\ updaterLog = Updated(syncSnap)
    /\ bcast.queue # <<>>
    /\ ~store.exists

-----------------------------------------------------------------------------
(* The dirty signal (specification SpecSync). *)

\* no signal is pending, the sync goroutine is between two runs, and the runner
\* is not cancelled
Quiet == syncPc = "idle" /\ ~dirtyCh /\ ~ctxCancelled

\* nothing has been set yet: no task state and no explicit status
NothingSet ==
    /\ taskStates = EmptyMap
    /\ ~ExplicitStatus
    /\ updaterLog.ClientStatus = "none"

-----------------------------------------------------------------------------
(* The explicit status (specification SpecExplicit). *)

\* C30: when an explicit client status or description is set, the snapshot
\* Alloc() returns carries exactly that status and description and the
\* runner's task states (finalized when the status is terminal); neither the
\* status derived from the task states nor a health overlay is in it, and the
\* updater is handed that status.
C30_ExplicitStatusWins ==
    /\ [](ExplicitStatus
            => /\ Alloc.ClientStatus = allocClientStatus
               /\ Alloc.ClientDescription = allocClientDescription
               /\ Alloc.Healthy = alloc.Healthy
               /\ Alloc.TaskStates = finalizeTerminalAlloc(taskStates, allocClientStatus)
               /\ \A t \in DOMAIN taskStates :
                     /\ t \in DOMAIN Alloc.TaskStates
                     /\ Alloc.TaskStates[t].State = taskStates[t].State
                     /\ Alloc.TaskStates[t].Failed = taskStates[t].Failed)
    /\ [][(ExplicitStatus /\ updaterLog' # updaterLog)
             => /\ updaterLog'.ClientStatus = allocClientStatus
                /\ updaterLog'.ClientDescription = allocClientDescription]_vars

\* the restored runner's tasks run, so the task states derive running, and the
\* allocation is part of a deployment, so a derived failed status would mark it
\* unhealthy; yet the updater has been handed the explicit status and the
\* snapshot's health is the allocation's own
C30_Witness ==
    /\ ExplicitStatus
    /\ getClientStatus(taskStates) = AllocClientStatusRunning
    /\ allocClientStatus = AllocClientStatusFailed
    /\ alloc.DeploymentID # ""
    /\ Alloc.Healthy = "unset"
    /\ updaterLog = Updated(Alloc)
    /\ ~dirtyCh

-----------------------------------------------------------------------------
(* Failed allocations of a deployment. *)

\* C31: every snapshot whose client status is failed and whose allocation has
\* a non-empty DeploymentID has deployment health false, also when failed was
\* set explicitly by setStatus.
C31_FailedIsUnhealthy ==
    (Alloc.ClientStatus = AllocClientStatusFailed /\ Alloc.DeploymentID # "")
        => Alloc.Healthy = "false"

-----------------------------------------------------------------------------
(* The update loop. *)

\* the update loop takes the update at the head of updateCh
UpdateTaken == pc = "loop" /\ pc' # "loop" /\ updateCh # <<>> /\ updateCh' = Tail(updateCh)

\* C32: the update loop stores the update it receives; a terminal update is
\* handed to no task runner and the loop is left to destroy the task runners
\* with a TaskKilled event; a non-terminal update is handed to every runner of
\* the tasks map, then a status sync is performed and the loop goes on.
C32_UpdateLoop ==
    [][/\ UpdateTaken
            => /\ alloc' = Head(updateCh)
               /\ IF TerminalStatus(Head(updateCh))
                     THEN /\ trs' = trs
                          /\ pc' = "dt_leader"
                          /\ destroyEvent' = DestroyEventOf(TaskKilled, "")
                     ELSE /\ \A t \in tasks :
                                trs'[t].updated = Head(updateCh).AllocModifyIndex
                          /\ \A t \in Tasks \ tasks : trs'[t] = trs[t]
                          /\ pc' = "ls_sync"
                          /\ UNCHANGED <<updaterLog, store, destroyLog>>
       /\ (pc = "ls_sync" /\ pc' # pc)
            => /\ pc' = "loop"
               /\ updaterLog' = Updated(Alloc)
               /\ alloc' = alloc]_vars

\* a non-terminal update has been handed to both task runners and the sync
\* that follows it has been performed; the runner is back in the loop
C32_Witness ==
    /\ pc = "loop"
    /\ alloc.AllocModifyIndex > 0
    /\ ~TerminalStatus(alloc)
    /\ tasks = Tasks
    /\ \A t \in Tasks : trs[t].updated = alloc.AllocModifyIndex
    /\ updaterLog = Updated(Alloc)

-----------------------------------------------------------------------------
(* Errors of the wait for the previous allocation. *)

\* Run returns from the wait for the previous allocation
WaitEnds == pc = "wait" /\ pc' = "done"

\* Run returns from the wait and sets no status
WaitEndsClean ==
    /\ RunWait
    /\ pc' = "done"
    /\ UNCHANGED <<allocClientStatus, allocClientDescription, dirtyCh>>

\* C33: when the wait for the previous allocation ends with an error, Run
\* returns and creates no task runner; it either sets no status, which is what
\* happens when the error is Canceled, or sets the status failed.
C33_WaitErrors ==
    /\ []((pc = "wait" /\ ctxCancelled) => ENABLED WaitEndsClean)
    /\ [][WaitEnds
            => /\ UNCHANGED <<tasks, trs, launchCount, taskStates, watchers>>
               /\ \/ /\ ctxCancelled
                     /\ UNCHANGED <<allocClientStatus, allocClientDescription, dirtyCh>>
                  \/ /\ allocClientStatus' = AllocClientStatusFailed
                     /\ allocClientDescription' =
                            "error while waiting for previous alloc to terminate"
                     /\ dirtyCh']_vars

\* the wait returned an error other than Canceled: Run has returned with the
\* status failed and without a task runner
C33_Witness ==
    /\ pc = "done"
    /\ allocClientStatus = AllocClientStatusFailed
    /\ allocClientDescription = "error while waiting for previous alloc to terminate"
    /\ tasks = {}
    /\ \A t \in Tasks : ~trs[t].created

-----------------------------------------------------------------------------
(* Restart accounting (specification SpecTimes). *)

\* the task state of t, or the zero task state when t has none
StateOf(ts, t) == IF t \in DOMAIN ts THEN ts[t] ELSE ZeroTaskState

\* C34: a setTaskState call that carries a TaskRestarting event increases the
\* task's Restarts by exactly 1 and sets LastRestart to the event's time, with
\* lazySync set or not; a call with another event or with no event, and every
\* other step, leaves Restarts and LastRestart as they are.
C34_RestartAccounting ==
    [][\A t \in Tasks :
          LET old == StateOf(taskStates, t)
              new == StateOf(taskStates', t)
          IN  IF /\ appended'[t] # appended[t]
                 /\ appended'[t][Len(appended'[t])].Type = TaskRestarting
                 THEN /\ new.Restarts = old.Restarts + 1
                      /\ new.LastRestart = appended'[t][Len(appended'[t])].Time
                 ELSE /\ new.Restarts = old.Restarts
                      /\ new.LastRestart = old.LastRestart]_vars

\* a running task has had a restart event and another event: one restart is
\* counted, at the time of the restart event, and the task still runs
C34_Witness ==
    \E t \in Tasks :
        /\ t \in DOMAIN taskStates
        /\ taskStates[t].State = TaskStateRunning
        /\ Len(appended[t]) = 2
        /\ appended[t][1].Type = TaskRestarting
        /\ appended[t][2].Type = "Started"
        /\ taskStates[t].Restarts = 1
        /\ taskStates[t].LastRestart = appended[t][1].Time
        /\ now > taskStates[t].LastRestart

-----------------------------------------------------------------------------
(* Lazy calls and calls without a state. *)

\* C35: a setTaskState call with lazySync set appends the event, sets Failed
\* when the event fails the task, and leaves the task's State, StartedAt and
\* FinishedAt, every other task state, the task runners and the dirty channel
\* as they are; a call with an empty state and lazySync unset stores the
\* task's existing state, or pending when the task has none.
C35_LazyAndOmittedState ==
    [][\A t \in Tasks, c \in Callbacks :
          (calls' # calls /\ setTaskState(t, c.state, c.event, c.lazy))
            => LET old == StateOf(taskStates, t)
                   new == StateOf(taskStates', t)
               IN  /\ c.lazy
                        => /\ new.State = old.State
                           /\ new.StartedAt = old.StartedAt
                           /\ new.FinishedAt = old.FinishedAt
                           /\ new.Failed = (old.Failed \/ c.event.FailsTask)
                           /\ new.Events = appendTaskEvent(old.Events, c.event)
                           /\ \A u \in Tasks \ {t} :
                                 StateOf(taskStates', u) = StateOf(taskStates, u)
                           /\ UNCHANGED <<trs, destroyLog, dirtyCh>>
                   /\ (~c.lazy /\ c.state = "")
                        => /\ new.State = IF old.State = "" THEN TaskStatePending
                                          ELSE old.State
                           /\ dirtyCh']_vars

\* a lazy call has added an event to a running task after the last sync:
\* the task still runs and no signal is pending
C35_Witness ==
    \E t \in Tasks :
        /\ t \in DOMAIN taskStates
        /\ taskStates[t].State = TaskStateRunning
        /\ Len(taskStates[t].Events) = 1
        /\ ~trs[t].destroyed
        /\ ~dirtyCh
        /\ updaterLog.ClientStatus = AllocClientStatusRunning

-----------------------------------------------------------------------------
(* The tasks map and the restored set. *)

\* C36: every read and write of the runner's tasks map and restored set
\* happens while taskLock is held.
C36_TasksUnderTaskLock ==
    \A ops \in TasksAccess :
        \A i \in 1..Len(ops) :
            ops[i].op = "access" => "taskLock" \in HeldAfter(ops, i - 1)

-----------------------------------------------------------------------------
(* Persistence and Destroy. *)

\* C37: once Destroy() has cancelled the runner's context no record is
\* written: the only change of the bucket is its deletion by DestroyState at
\* the end of handleDestroy, and the persisted markers stay as they are.
C37_NoWriteAfterCancel ==
    [][ctxCancelled
          => /\ persisted' = persisted
             /\ \/ store' = store
                \/ /\ pc = "hd_wait"
                   /\ pc' = "done"
                   /\ ~store'.exists
                   /\ store'.allocWrites = store.allocWrites
                   /\ store'.immutableWrites = store.immutableWrites
                   /\ store'.allocDirWrites = store.allocDirWrites]_vars

\* the bucket was written, Destroy() was called, the final sync of
\* handleDestroy ran and DestroyState deleted the bucket: nothing is in it
C37_Witness ==
    /\ ctxCancelled
    /\ pc = "done"
    /\ allocDir = "destroyed"
    /\ store.allocWrites >= 1
    /\ ~store.exists
    /\ syncPc = "exited"

-----------------------------------------------------------------------------
(* The Failed flag and the derived status. *)

\* C38: a task's Failed flag, once true, stays true, and once the status
\* derived from the task states is failed it is failed in every later state
\* of the running runner.
C38_FailedStays ==
    [][/\ \A t \in DOMAIN taskStates :
             taskStates[t].Failed => (t \in DOMAIN taskStates' /\ taskStates'[t].Failed)
       /\ getClientStatus(taskStates) = AllocClientStatusFailed
             => getClientStatus(taskStates') = AllocClientStatusFailed]_vars

-----------------------------------------------------------------------------
(* The health watcher's context. *)

\* C39: at most one health-watcher context is uncancelled at any moment; none
\* exists before the task runners are launched, none is started on the
\* terminal-on-start path, and none is left when Run has returned.
C39_OneWatcher ==
    /\ watchers <= 1
    /\ pc \in {"created", "build", "wait", "migrate", "checkTerminal"} => watchers = 0
    /\ (pc \in {"hd_compose", "hd_wait"} /\ \A t \in Tasks : ~trs[t].created)
          => watchers = 0
    /\ pc = "done" => watchers = 0

\* the update loop has applied an update, cancelling the watcher started at
\* the launch and starting another: one watcher context is uncancelled
C39_Witness ==
    /\ alloc.AllocModifyIndex > 0
    /\ pc \in {"dt_leader", "dt_others", "dt_wait", "hd_compose", "hd_wait"}
    /\ \A t \in Tasks : trs[t].created
    /\ watchers = 1

-----------------------------------------------------------------------------
(* The end of the teardown. *)

\* C40: the final snapshot of handleDestroy is composed, broadcast and
\* persisted after the WaitCh of every task runner of the tasks map has
\* closed, and an update that arrives afterwards is dropped without changing
\* the runner's allocation.
C40_FinalAfterTeardown ==
    [][/\ (pc = "hd_compose" /\ pc' # pc) => \A t \in tasks : trs[t].exited
       /\ pc = "hd_wait" => alloc' = alloc]_vars

====
